---- MODULE Spec2Model ----
(***************************************************************************)
(* Model of the ip_transcoder enforcer: the schedule evaluator             *)
(* (Channel.is_active_now), the command builder (FFmpegJobConfig), the     *)
(* segment listing, the retention pruner (_auto_delete_for_channel) and    *)
(* the reconciliation loop (Command.handle).                               *)
(*                                                                         *)
(* Time is an integer number of model time units.  A datetime is a number  *)
(* of units since a Monday 00:00; a day has DayLen units.                  *)
(***************************************************************************)
EXTENDS Integers, Sequences, FiniteSets, TLC

\* ------------------------------------------------------------------------
\* Bounds and scales
\* ------------------------------------------------------------------------
\* Last instant of the wall clock that the model explores.
MaxTime == 6
\* Most files a recordings directory holds in an initial state of SpecPrune.
MaxFiles == 3
\* Most processes the enforcer spawns in one behaviour.
MaxProcs == 3
\* Most parameters in the query of an output target.
MaxParams == 2
\* Number of ticks of the enforcer loop that the model explores.
MaxTicks == 4
\* Most events of the environment (edits, exits, new segments, interrupts)
\* in one run.
MaxEvents == 1

\* Time units per minute (recording_segment_minutes * 60 seconds).
MinuteLen == 1
\* Time units per day (timedelta(days=1), 24 * 60 * 60 seconds).
DayLen == 4
\* settings.PLAYBACK_PLAYLIST_WINDOW_SECONDS (default 3 * 3600), in units.
WindowSeconds == 2
\* Command.POLL_INTERVAL, in units.
POLL_INTERVAL == 1

\* Python's None for optional integer fields.
None == -1

VARIABLES
    clock,      \* wall clock (timezone.localtime())
    chans,      \* configuration store: channel id -> Channel row (+ profile)
    disk,       \* channel id -> set of .ts files under its recordings root
    playlist,   \* channel id -> content of playlists/channel_<id>/concat.txt
    running,    \* handle(): running: Dict[JobKey, Popen]  (0 = no entry)
    lastCmd,    \* handle(): self._last_cmd                (NoCmd = no entry)
    procs,      \* sequence of spawned OS processes, index = pid
    pc,         \* "loop" while the enforcer runs, "stopped" after Ctrl+C
    tick,       \* history: what the last tick saw and did
    since,      \* history: what happened since the last tick began
    pruned,     \* history: the last run of _auto_delete_for_channel
    built,      \* history: the last run of build_command
    desired_jobs, \* handle(): desired_jobs of the last evaluation, in order
    listing     \* history: the last result of _iter_recording_segments

vars == <<clock, chans, disk, playlist, running, lastCmd, procs, pc,
          tick, since, pruned, built, desired_jobs, listing>>

\* ------------------------------------------------------------------------
\* Sequences helpers
\* ------------------------------------------------------------------------
Range(s) == {s[i] : i \in 1..Len(s)}

Contains(s, tok) == tok \in Range(s)

RECURSIVE SeqSum(_)
SeqSum(s) == IF s = <<>> THEN 0 ELSE Head(s) + SeqSum(Tail(s))

\* ------------------------------------------------------------------------
\* Recorded segment files
\* ------------------------------------------------------------------------
\* A file: its path, the timestamp its name parses to (None when the name
\* does not match <channel>_YYYYMMDD-HHMMSS.ts or strptime rejects it), and
\* its modification time.
NamedFile(t) == [path |-> t, stamp |-> t, mtime |-> t]
OddFile(k, m) == [path |-> 100 + k, stamp |-> None, mtime |-> m]

\* Variant: the name is never parsed, the modification time is used.
Timestamp_MtimeOnly(f) == f.mtime

\* ffmpeg_runner.py:275-284 / transcoder_enforcer.py:66-74
Timestamp(f) == IF f.stamp # None THEN f.stamp ELSE f.mtime

\* ffmpeg_runner.py:269-287 / transcoder_enforcer.py:59-76: glob in any
\* enumeration order followed by a stable sort on the timestamp alone, i.e.
\* any ordering of the files that is non-decreasing in the timestamp.
RECURSIVE IterRecordingSegments(_)
IterRecordingSegments(files) ==
    IF files = {} THEN {<<>>}
    ELSE UNION {{<<f>> \o rest : rest \in IterRecordingSegments(files \ {f})} :
                  f \in {g \in files :
                           \A h \in files : Timestamp(g) <= Timestamp(h)}}

\* ------------------------------------------------------------------------
\* Retention pruner (Command._auto_delete_for_channel)
\* ------------------------------------------------------------------------
\* transcoder_enforcer.py:38-41
PruneDelaySeconds(chan) ==
    IF chan.profile.present /\ chan.profile.enabled
    THEN chan.profile.delay_seconds
    ELSE 0

\* Variant: the protected span leaves out the playlist window.
ProtectSeconds_NoWindow(chan) ==
    PruneDelaySeconds(chan) + (chan.recording_segment_minutes * MinuteLen)

\* transcoder_enforcer.py:43
ProtectSeconds(chan) ==
    PruneDelaySeconds(chan) + WindowSeconds
        + (chan.recording_segment_minutes * MinuteLen)

\* transcoder_enforcer.py:44
ProtectAfter(chan, now) == now - ProtectSeconds(chan)

\* Variant: only an unset number of days switches the age rule off.
AgeSelected_ZeroIsThreshold(chan, now, items) ==
    IF chan.auto_delete_after_days # None
    THEN LET cutoff == now - (chan.auto_delete_after_days * DayLen)
         IN  {items[i] : i \in {j \in 1..Len(items) :
                 /\ Timestamp(items[j]) < cutoff
                 /\ Timestamp(items[j]) < ProtectAfter(chan, now)}}
    ELSE {}

\* transcoder_enforcer.py:80-85
AgeSelected(chan, now, items) ==
    IF chan.auto_delete_after_days # None /\ chan.auto_delete_after_days # 0
    THEN LET cutoff == now - (chan.auto_delete_after_days * DayLen)
         IN  {items[i] : i \in {j \in 1..Len(items) :
                 /\ Timestamp(items[j]) < cutoff
                 /\ Timestamp(items[j]) < ProtectAfter(chan, now)}}
    ELSE {}

\* Variant: keep-last-N deletes every older segment, protected or not.
CountSelected_NoProtect(chan, now, items) ==
    IF chan.auto_delete_after_segments # None
          /\ chan.auto_delete_after_segments # 0
    THEN LET keep_n == chan.auto_delete_after_segments
         IN  IF keep_n > 0 /\ Len(items) > keep_n
             THEN {items[i] : i \in 1..(Len(items) - keep_n)}
             ELSE {}
    ELSE {}

\* Variant: the slice keeps the oldest keep_n segments instead of the most
\* recent ones.
CountSelected_KeepOldest(chan, now, items) ==
    IF chan.auto_delete_after_segments # None
          /\ chan.auto_delete_after_segments # 0
    THEN LET keep_n == chan.auto_delete_after_segments
         IN  IF keep_n > 0 /\ Len(items) > keep_n
             THEN {items[i] : i \in {j \in (keep_n + 1)..Len(items) :
                      Timestamp(items[j]) < ProtectAfter(chan, now)}}
             ELSE {}
    ELSE {}

\* Variant: the retained count is taken over the unprotected segments only.
CountSelected_UnprotectedOnly(chan, now, items) ==
    IF chan.auto_delete_after_segments # None
          /\ chan.auto_delete_after_segments # 0
    THEN LET keep_n == chan.auto_delete_after_segments
             open == SelectSeq(items,
                        LAMBDA f : Timestamp(f) < ProtectAfter(chan, now))
         IN  IF keep_n > 0 /\ Len(open) > keep_n
             THEN {open[i] : i \in 1..(Len(open) - keep_n)}
             ELSE {}
    ELSE {}

\* transcoder_enforcer.py:87-94
CountSelected(chan, now, items) ==
    IF chan.auto_delete_after_segments # None
          /\ chan.auto_delete_after_segments # 0
    THEN LET keep_n == chan.auto_delete_after_segments
         IN  IF keep_n > 0 /\ Len(items) > keep_n
             THEN {items[i] : i \in {j \in 1..(Len(items) - keep_n) :
                      Timestamp(items[j]) < ProtectAfter(chan, now)}}
             ELSE {}
    ELSE {}

\* Variant: the loop over to_delete ends at the first unlink that raises
\* (paths are visited in sorted order).
UnlinkAll_StopAtFailure(files, to_delete, failed) ==
    files \ {f \in to_delete : \A g \in failed : f.path < g.path}

\* transcoder_enforcer.py:96-100: every file of to_delete is unlinked; an
\* unlink that raises leaves its file and is ignored.
UnlinkAll(files, to_delete, failed) == files \ (to_delete \ failed)

\* transcoder_enforcer.py:78-94: the set to_delete
ToDelete(chan, now, items) ==
    AgeSelected(chan, now, items) \cup CountSelected(chan, now, items)

\* ------------------------------------------------------------------------
\* Schedule evaluator (Channel.is_active_now)
\* ------------------------------------------------------------------------
LocalDate(now) == now \div DayLen
LocalTime(now) == now % DayLen
\* datetime.weekday(): Monday = 0 ... Sunday = 6; instant 0 is a Monday.
Weekday(now) == LocalDate(now) % 7

\* Variant: the weekday flags are not consulted.
is_active_now_NoWeekday(chan, now) ==
    LET local_date == LocalDate(now)
        local_time == LocalTime(now)
        start_time == IF chan.start_time = None THEN 0 ELSE chan.start_time
        end_time   == IF chan.end_time = None THEN 0 ELSE chan.end_time
    IN  IF ~chan.enabled THEN FALSE
        ELSE IF chan.date_from # None /\ local_date < chan.date_from THEN FALSE
        ELSE IF chan.date_to # None /\ local_date > chan.date_to THEN FALSE
        ELSE IF start_time = end_time THEN TRUE
        ELSE IF start_time < end_time
             THEN start_time <= local_time /\ local_time < end_time
             ELSE local_time >= start_time \/ local_time < end_time

\* Variant: a same-day window includes its end.
is_active_now_ClosedEnd(chan, now) ==
    LET local_date == LocalDate(now)
        local_time == LocalTime(now)
        start_time == IF chan.start_time = None THEN 0 ELSE chan.start_time
        end_time   == IF chan.end_time = None THEN 0 ELSE chan.end_time
    IN  IF ~chan.enabled THEN FALSE
        ELSE IF chan.date_from # None /\ local_date < chan.date_from THEN FALSE
        ELSE IF chan.date_to # None /\ local_date > chan.date_to THEN FALSE
        ELSE IF ~chan.weekday_flags[Weekday(now) + 1] THEN FALSE
        ELSE IF start_time = end_time THEN TRUE
        ELSE IF start_time < end_time
             THEN start_time <= local_time /\ local_time <= end_time
             ELSE local_time >= start_time \/ local_time < end_time

\* Variant: an overnight window is tested like a same-day one.
is_active_now_NoOvernight(chan, now) ==
    LET local_date == LocalDate(now)
        local_time == LocalTime(now)
        start_time == IF chan.start_time = None THEN 0 ELSE chan.start_time
        end_time   == IF chan.end_time = None THEN 0 ELSE chan.end_time
    IN  IF ~chan.enabled THEN FALSE
        ELSE IF chan.date_from # None /\ local_date < chan.date_from THEN FALSE
        ELSE IF chan.date_to # None /\ local_date > chan.date_to THEN FALSE
        ELSE IF ~chan.weekday_flags[Weekday(now) + 1] THEN FALSE
        ELSE IF start_time = end_time THEN TRUE
        ELSE start_time <= local_time /\ local_time < end_time

\* Variant: after midnight an overnight window takes the weekday and the
\* date of the day on which it started.
is_active_now_StartDay(chan, now) ==
    LET local_time == LocalTime(now)
        start_time == IF chan.start_time = None THEN 0 ELSE chan.start_time
        end_time   == IF chan.end_time = None THEN 0 ELSE chan.end_time
        local_date == IF start_time > end_time /\ local_time < end_time
                      THEN LocalDate(now) - 1 ELSE LocalDate(now)
    IN  IF ~chan.enabled THEN FALSE
        ELSE IF chan.date_from # None /\ local_date < chan.date_from THEN FALSE
        ELSE IF chan.date_to # None /\ local_date > chan.date_to THEN FALSE
        ELSE IF ~chan.weekday_flags[(local_date % 7) + 1] THEN FALSE
        ELSE IF start_time = end_time THEN TRUE
        ELSE IF start_time < end_time
             THEN start_time <= local_time /\ local_time < end_time
             ELSE local_time >= start_time \/ local_time < end_time

\* models.py:230-284
is_active_now(chan, now) ==
    LET local_date == LocalDate(now)
        local_time == LocalTime(now)
        start_time == IF chan.start_time = None THEN 0 ELSE chan.start_time
        end_time   == IF chan.end_time = None THEN 0 ELSE chan.end_time
    IN  IF ~chan.enabled THEN FALSE
        ELSE IF chan.date_from # None /\ local_date < chan.date_from THEN FALSE
        ELSE IF chan.date_to # None /\ local_date > chan.date_to THEN FALSE
        ELSE IF ~chan.weekday_flags[Weekday(now) + 1] THEN FALSE
        ELSE IF start_time = end_time THEN TRUE
        ELSE IF start_time < end_time
             THEN start_time <= local_time /\ local_time < end_time
             ELSE local_time >= start_time \/ local_time < end_time

\* ------------------------------------------------------------------------
\* Output URLs, as sequences of tokens
\* ------------------------------------------------------------------------
\* An output target is a string, modelled as the sequence of its tokens:
\* "udp://", "@", an IPv4 address ("ip<first octet>"), ":port", "?", "&",
\* "pkt_size=", "ttl=", "x=" (another parameter), a value, " " (whitespace).
IpTokens == {"ip10", "ip224", "ip239", "ip240"}

\* ffmpeg_runner.py:90-91
FirstOctet(tok) ==
    CASE tok = "ip10"  -> 10
      [] tok = "ip224" -> 224
      [] tok = "ip239" -> 239
      [] tok = "ip240" -> 240

\* str.strip()
RECURSIVE LStrip(_)
LStrip(s) == IF s # <<>> /\ Head(s) = " " THEN LStrip(Tail(s)) ELSE s

RECURSIVE RStrip(_)
RStrip(s) ==
    IF s # <<>> /\ s[Len(s)] = " " THEN RStrip(SubSeq(s, 1, Len(s) - 1)) ELSE s

Strip(s) == RStrip(LStrip(s))

\* ffmpeg_runner.py:82-84
WithPktSize(url) ==
    IF url # <<>> /\ Head(url) = "udp://" /\ ~Contains(url, "pkt_size=")
    THEN url \o <<(IF Contains(url, "?") THEN "&" ELSE "?"), "pkt_size=", "1316">>
    ELSE url

\* ffmpeg_runner.py:88: re.search(r"udp://(\d{1,3}\.){3}\d{1,3}", url): the
\* positions where "udp://" is directly followed by a dotted quad.
McastMatches(url) ==
    {i \in 1..(Len(url) - 1) : url[i] = "udp://" /\ url[i + 1] \in IpTokens}

\* ffmpeg_runner.py:88-94
WithTtl(url) ==
    LET m == McastMatches(url)
    IN  IF m # {} /\ ~Contains(url, "ttl=")
        THEN LET first == CHOOSE i \in m : \A j \in m : i <= j
                 first_octet == FirstOctet(url[first + 1])
             IN  IF 224 <= first_octet /\ first_octet <= 239
                 THEN url \o <<(IF Contains(url, "?") THEN "&" ELSE "?"),
                               "ttl=", "16">>
                 ELSE url
        ELSE url

\* ffmpeg_runner.py:75-94
NormalizeOutput(output_target) == WithTtl(WithPktSize(Strip(output_target)))

\* ------------------------------------------------------------------------
\* Command builder (FFmpegJobConfig.build_command)
\* ------------------------------------------------------------------------
\* An argument vector, reduced to the parts that vary with the channel:
\* input names what follows "-i" (the input of the channel, or the playlist
\* file MEDIA_ROOT/playlists/channel_<id>/concat.txt), url is the output.
NoCmd == [purpose |-> "none", mode |-> "none", chan |-> 0, input |-> <<>>,
          url |-> <<>>]

\* No file written.
NoWrite == <<[path |-> 0, stamp |-> None, mtime |-> None]>>

\* ffmpeg_runner.py:101 / transcoder_enforcer.py:119
ProfileEnabled(chan) == chan.profile.present /\ chan.profile.enabled

\* ffmpeg_runner.py:102 / transcoder_enforcer.py:120
ProfileDelay(chan) ==
    IF chan.profile.present THEN chan.profile.delay_seconds ELSE 0

\* Variant: the window has no lower end.
ChosenSegments_NoStart(delay_seconds, now, segments) ==
    SelectSeq(segments, LAMBDA f : Timestamp(f) <= now - delay_seconds)

\* Variant: the window has no upper end.
ChosenSegments_NoEnd(delay_seconds, now, segments) ==
    SelectSeq(segments,
              LAMBDA f : now - delay_seconds - WindowSeconds <= Timestamp(f))

\* ffmpeg_runner.py:302-314: the segments chosen for the playlist
ChosenSegments(delay_seconds, now, segments) ==
    LET target   == now - delay_seconds
        start_ts == target - WindowSeconds
        end_ts   == target
    IN  SelectSeq(segments,
                  LAMBDA f : start_ts <= Timestamp(f) /\ Timestamp(f) <= end_ts)

\* Variant: live mode is chosen on the enabled flag alone.
IsLiveMode_EnabledOnly(chan) == ~ProfileEnabled(chan)

\* Variant: live mode is chosen on the delay alone.
IsLiveMode_DelayOnly(chan) == ProfileDelay(chan) <= 0

\* ffmpeg_runner.py:105: the test that selects live mode.
IsLiveMode(chan) == ~ProfileEnabled(chan) \/ ProfileDelay(chan) <= 0

\* Variant: the time-shift vector reads the first chosen segment, not the
\* playlist file.
build_command_SegmentAsInput(chan, purpose, now, segments, io_ok) ==
    LET fail(status, listed) ==
            [status |-> status, cmd |-> NoCmd, playlist |-> NoWrite,
             listed |-> listed]
    IN  IF purpose = "record"
        THEN IF ~io_ok THEN fail("Error", FALSE)
             ELSE [status |-> "ok",
                   cmd |-> [purpose |-> "record", mode |-> "record",
                            chan |-> chan.id,
                            input |-> <<"input", chan.id>>, url |-> <<>>],
                   playlist |-> NoWrite, listed |-> FALSE]
        ELSE IF purpose = "playback"
        THEN IF chan.output_type # "udp_ts" \/ Strip(chan.output_target) = <<>>
             THEN fail("InvalidConfig", FALSE)
             ELSE IF IsLiveMode(chan)
             THEN [status |-> "ok",
                   cmd |-> [purpose |-> "playback", mode |-> "live",
                            chan |-> chan.id,
                            input |-> <<"input", chan.id>>,
                            url |-> NormalizeOutput(chan.output_target)],
                   playlist |-> NoWrite, listed |-> FALSE]
             ELSE IF ~ProfileEnabled(chan)
             THEN fail("InvalidConfig", FALSE)
             ELSE IF ProfileDelay(chan) > DayLen
             THEN fail("InvalidConfig", FALSE)
             ELSE LET chosen ==
                          ChosenSegments(ProfileDelay(chan), now, segments)
                  IN  IF chosen = <<>> THEN fail("NotReady", TRUE)
                      ELSE IF ~io_ok THEN fail("Error", TRUE)
                      ELSE [status |-> "ok",
                            cmd |-> [purpose |-> "playback",
                                     mode |-> "timeshift", chan |-> chan.id,
                                     input |-> <<"segment", chosen[1].path>>,
                                     url |-> NormalizeOutput(chan.output_target)],
                            playlist |-> chosen, listed |-> TRUE]
        ELSE fail("InvalidConfig", FALSE)

\* ffmpeg_runner.py:20-169.  segments is the listing a time-shift build
\* obtains, io_ok says whether the filesystem calls of the build (mkdir,
\* write_text) succeed.  The result names the outcome, the argument vector,
\* the playlist content written (NoWrite when none) and whether the segment
\* listing was read.
build_command(chan, purpose, now, segments, io_ok) ==
    LET fail(status, listed) ==
            [status |-> status, cmd |-> NoCmd, playlist |-> NoWrite,
             listed |-> listed]
    IN  IF purpose = "record"
        THEN IF ~io_ok THEN fail("Error", FALSE)
             ELSE [status |-> "ok",
                   cmd |-> [purpose |-> "record", mode |-> "record",
                            chan |-> chan.id,
                            input |-> <<"input", chan.id>>, url |-> <<>>],
                   playlist |-> NoWrite, listed |-> FALSE]
        ELSE IF purpose = "playback"
        THEN IF chan.output_type # "udp_ts" \/ Strip(chan.output_target) = <<>>
             THEN fail("InvalidConfig", FALSE)
             ELSE IF IsLiveMode(chan)
             THEN [status |-> "ok",
                   cmd |-> [purpose |-> "playback", mode |-> "live",
                            chan |-> chan.id,
                            input |-> <<"input", chan.id>>,
                            url |-> NormalizeOutput(chan.output_target)],
                   playlist |-> NoWrite, listed |-> FALSE]
             ELSE IF ~ProfileEnabled(chan)
             THEN fail("InvalidConfig", FALSE)
             ELSE IF ProfileDelay(chan) > DayLen
             THEN fail("InvalidConfig", FALSE)
             ELSE LET chosen ==
                          ChosenSegments(ProfileDelay(chan), now, segments)
                  IN  IF chosen = <<>> THEN fail("NotReady", TRUE)
                      ELSE IF ~io_ok THEN fail("Error", TRUE)
                      ELSE [status |-> "ok",
                            cmd |-> [purpose |-> "playback",
                                     mode |-> "timeshift", chan |-> chan.id,
                                     input |-> <<"playlist", chan.id>>,
                                     url |-> NormalizeOutput(chan.output_target)],
                            playlist |-> chosen, listed |-> TRUE]
        ELSE fail("InvalidConfig", FALSE)

\* The outcomes a build can have: any listing order, filesystem calls that
\* succeed or fail.
BuildOutcomes(chan, purpose, now, files) ==
    {build_command(chan, purpose, now, segments, io_ok) :
        segments \in IterRecordingSegments(files), io_ok \in BOOLEAN}

\* ------------------------------------------------------------------------
\* Desired jobs (Command.handle, lines 111-136)
\* ------------------------------------------------------------------------
\* Variant: the target is not stripped before it is tested.
has_udp_out_NoStrip(chan) ==
    chan.output_type = "udp_ts" /\ chan.output_target # <<>>

\* transcoder_enforcer.py:122
has_udp_out(chan) ==
    chan.output_type = "udp_ts" /\ Strip(chan.output_target) # <<>>

\* transcoder_enforcer.py:114-136: the keys one channel adds to desired_jobs,
\* in insertion order.
ChannelDesired(chan, now) ==
    IF ~is_active_now(chan, now) THEN <<>>
    ELSE LET enabled_prof  == ProfileEnabled(chan)
             delay_seconds == ProfileDelay(chan)
             live == IF has_udp_out(chan)
                        /\ (~enabled_prof \/ delay_seconds <= 0)
                     THEN << <<"playback", chan.id>> >> ELSE <<>>
             shifted == IF enabled_prof /\ delay_seconds > 0
                        THEN << <<"record", chan.id>> >>
                             \o (IF has_udp_out(chan)
                                 THEN << <<"playback", chan.id>> >> ELSE <<>>)
                        ELSE <<>>
         IN  live \o shifted

\* ------------------------------------------------------------------------
\* Channels
\* ------------------------------------------------------------------------
\* The enabled channels are read in Meta.ordering (models.py:223-224).
ChanSeq == <<1>>
ChanIds == Range(ChanSeq)

\* JobKey = (purpose, channel_id), transcoder_enforcer.py:12
Keys == {"record", "playback"} \X ChanIds

NoProfile == [present |-> FALSE, enabled |-> FALSE, delay_seconds |-> 0]
Profile(enabled, delay_seconds) ==
    [present |-> TRUE, enabled |-> enabled, delay_seconds |-> delay_seconds]

AllWeek == <<TRUE, TRUE, TRUE, TRUE, TRUE, TRUE, TRUE>>

TargetA == <<"udp://", "ip10", ":port">>
TargetB == <<"udp://", "ip239", ":port">>

\* models.py:47-221: a Channel row with the model's defaults, and the
\* TimeShiftProfile of the channel (models.py:461-487).
DefaultChannel(id) ==
    [id |-> id, enabled |-> TRUE,
     output_type |-> "udp_ts", output_target |-> TargetA,
     record_enabled |-> TRUE, recording_segment_minutes |-> 1,
     auto_delete_enabled |-> FALSE,
     auto_delete_after_segments |-> None, auto_delete_after_days |-> None,
     weekday_flags |-> AllWeek, start_time |-> None, end_time |-> None,
     date_from |-> None, date_to |-> None,
     profile |-> NoProfile]

\* ------------------------------------------------------------------------
\* History records
\* ------------------------------------------------------------------------
NoPrune == [ran |-> FALSE, chan |-> 0, now |-> 0, items |-> <<>>,
            by_age |-> {}, by_count |-> {}, to_delete |-> {}, failed |-> {}]

\* What a run of the pruner leaves in the history: the listing it sorted,
\* what each rule selected, the set to_delete and the files whose unlink
\* raised.
PruneRun(chan, now, items, failed) ==
    [ran |-> TRUE, chan |-> chan.id, now |-> now, items |-> items,
     by_age |-> AgeSelected(chan, now, items),
     by_count |-> CountSelected(chan, now, items),
     to_delete |-> ToDelete(chan, now, items), failed |-> failed]

NoBuild == [ran |-> FALSE, chan |-> 0, now |-> 0, status |-> "none",
            cmd |-> NoCmd, playlist |-> NoWrite, listed |-> FALSE]

\* An event of a tick: a call the enforcer made, or a failure it logged.
Event(op, key, pid, cmd) == [op |-> op, key |-> key, pid |-> pid, cmd |-> cmd]

\* What a tick leaves in the history: the number of ticks so far (at most
\* 2), the schedule outcome it saw, its events, whether a build or a spawn
\* failed in it, and what it saw of the time since the tick before it.
NoTick == [n |-> 0, active |-> <<>>, events |-> <<>>, failed |-> FALSE,
           edit |-> "none", steady |-> FALSE, prevFailed |-> FALSE]

\* What happened since the last tick: the kind of configuration edit
\* ("none", "target" only, or "other"), a change of the disk, the exit of
\* a tracked process; and the number of such events of the whole run.
Quiet == [edit |-> "none", diskChanged |-> FALSE, exited |-> FALSE,
          count |-> 0]

\* ------------------------------------------------------------------------
\* SpecPrune: the pruner and the playlist builder on one recordings root
\* ------------------------------------------------------------------------
\* First instant of SpecPrune: late enough for a file to be unprotected.
PruneStart == WindowSeconds + 2

\* Files a recordings root may hold: segments named by the recorder and
\* files whose name does not parse (timestamp = modification time).
FileUniverse == {NamedFile(t) : t \in 0..(PruneStart - 1)} \cup {OddFile(1, 1)}

PruneProfiles == {NoProfile, Profile(FALSE, 1), Profile(TRUE, 1)}

PruneChannels(id) ==
    {[DefaultChannel(id) EXCEPT
         !.auto_delete_enabled = TRUE,
         !.profile = p, !.recording_segment_minutes = m,
         !.auto_delete_after_segments = n, !.auto_delete_after_days = d] :
       p \in PruneProfiles, m \in {1, 2}, n \in {None, 0, 1, 2},
       d \in {None, 1}}

InitPrune ==
    /\ clock = PruneStart
    /\ chans \in {f \in [ChanIds -> UNION {PruneChannels(i) : i \in ChanIds}] :
                     \A i \in ChanIds : f[i].id = i}
    /\ disk \in [ChanIds -> {S \in SUBSET FileUniverse : Cardinality(S) <= MaxFiles}]
    /\ playlist = [c \in ChanIds |-> <<>>]
    /\ running = <<>>
    /\ lastCmd = <<>>
    /\ procs = <<>>
    /\ pc = "prune"
    /\ tick = NoTick
    /\ since = Quiet
    /\ pruned = NoPrune
    /\ built = NoBuild
    /\ desired_jobs = <<>>
    /\ listing = <<>>

\* transcoder_enforcer.py:23-100 applied to channel c at now = clock: the
\* listing is any stable-sorted enumeration, every unlink may fail.
AutoDeleteForChannel(c) ==
    /\ chans[c].auto_delete_enabled
    /\ \E items \in IterRecordingSegments(disk[c]) :
         LET to_delete == ToDelete(chans[c], clock, items)
         IN  \E failed \in SUBSET to_delete :
               /\ disk' = [disk EXCEPT ![c] = UnlinkAll(@, to_delete, failed)]
               /\ pruned' = PruneRun(chans[c], clock, items, failed)
    /\ UNCHANGED <<desired_jobs, listing>>
    /\ UNCHANGED <<clock, chans, playlist, running, lastCmd, procs, pc,
                   tick, since, built>>

\* ffmpeg_runner.py:20-169 with purpose = "playback" applied to channel c at
\* now = clock.
BuildPlayback(c) ==
    /\ \E b \in BuildOutcomes(chans[c], "playback", clock, disk[c]) :
             /\ playlist' = IF b.playlist = NoWrite THEN playlist
                            ELSE [playlist EXCEPT ![c] = b.playlist]
             /\ built' = [ran |-> TRUE, chan |-> c, now |-> clock,
                          status |-> b.status, cmd |-> b.cmd,
                          playlist |-> b.playlist, listed |-> b.listed]
    /\ UNCHANGED <<desired_jobs, listing>>
    /\ UNCHANGED <<clock, chans, disk, running, lastCmd, procs, pc,
                   tick, since, pruned>>

\* Time passes.
Advance ==
    /\ clock < MaxTime
    /\ clock' = clock + 1
    /\ UNCHANGED <<desired_jobs, listing>>
    /\ UNCHANGED <<chans, disk, playlist, running, lastCmd, procs, pc,
                   tick, since, pruned, built>>

NextPrune ==
    \/ \E c \in ChanIds : AutoDeleteForChannel(c)
    \/ \E c \in ChanIds : BuildPlayback(c)
    \/ Advance

SpecPrune == InitPrune /\ [][NextPrune]_vars

\* C1: the pruner never deletes a segment whose timestamp is at or after
\* protect_after = now - (delay + window + segment_minutes * 60), whatever
\* the retention settings: every file that leaves a recordings root in a
\* step is older than the protected cutoff of that step.
C1_ProtectedNeverDeleted ==
    [][\A c \in ChanIds : \A f \in disk[c] \ disk'[c] :
          Timestamp(f) < ProtectAfter(chans[c], clock)]_vars

\* A prune ran with count-based retention, deleted a file, and kept a file
\* that is not among the keep_n most recent because it is protected.
C1_Witness ==
    /\ pruned.ran
    /\ pruned.to_delete \ pruned.failed # {}
    /\ LET chan == chans[pruned.chan]
           keep_n == chan.auto_delete_after_segments
       IN  /\ keep_n # None /\ keep_n > 0
           /\ \E i \in 1..(Len(pruned.items) - keep_n) :
                /\ Timestamp(pruned.items[i]) >= ProtectAfter(chan, pruned.now)
                /\ pruned.items[i] \in disk[pruned.chan]

\* Files the last prune removed from the disk.
PrunedFiles == pruned.to_delete \ pruned.failed

\* C2: with an enabled time-shift profile (delay d) and lookback window w,
\* every segment deleted by a prune run at time t is strictly older than
\* t' - d - w, the start of the selection window of a playlist built at any
\* t' >= t, and no playlist built at such a t' lists a deleted segment.
C2_PrunedOlderThanPlaylistWindow ==
    pruned.ran /\ ProfileEnabled(chans[pruned.chan]) =>
        LET chan == chans[pruned.chan]
        IN  /\ clock >= pruned.now
            /\ \A f \in PrunedFiles :
                 Timestamp(f) < clock - ProfileDelay(chan) - WindowSeconds
            /\ (built.ran /\ built.chan = pruned.chan
                  /\ built.now >= pruned.now /\ built.playlist # NoWrite)
               => Range(built.playlist) \cap PrunedFiles = {}

\* A prune deleted files and a time-shift playlist was written later.
C2_Witness ==
    /\ pruned.ran /\ ProfileEnabled(chans[pruned.chan])
    /\ PrunedFiles # {}
    /\ built.ran /\ built.chan = pruned.chan /\ built.now > pruned.now
    /\ built.status = "ok" /\ built.cmd.mode = "timeshift"
    /\ built.playlist # NoWrite

\* Channel c has count-based retention keep_n > 0 and every segment on its
\* disk is older than the protected cutoff at now.
CountCase(c, now) ==
    /\ chans[c].auto_delete_after_segments # None
    /\ chans[c].auto_delete_after_segments > 0
    /\ \A f \in disk[c] : Timestamp(f) < ProtectAfter(chans[c], now)

\* No file of S is newer than a file of T.
Oldest(S, T) == \A f \in S, g \in T : Timestamp(f) <= Timestamp(g)

\* C18 as stated: with count-based retention keep_n > 0, M segments and
\* every segment older than the protected cutoff, a prune deletes exactly
\* the M - keep_n oldest segments and keep_n remain when M > keep_n, and
\* deletes none when M <= keep_n.
C18_Original ==
    [][\A c \in ChanIds :
         (pruned' # pruned /\ pruned'.chan = c /\ CountCase(c, clock))
           => LET keep_n == chans[c].auto_delete_after_segments
                  M == Cardinality(disk[c])
              IN  IF M > keep_n
                  THEN /\ Cardinality(disk[c] \ disk'[c]) = M - keep_n
                       /\ Cardinality(disk'[c]) = keep_n
                       /\ Oldest(disk[c] \ disk'[c], disk'[c])
                  ELSE disk'[c] = disk[c]]_vars

\* C18: with count-based retention keep_n > 0, age-based retention not
\* configured, M segments and every segment older than the protected
\* cutoff, a prune selects exactly the M - keep_n oldest segments (none when
\* M <= keep_n), removes every selected segment whose unlink succeeds and
\* leaves all others, so the keep_n most recent always remain.
C18_CountRetention ==
    [][\A c \in ChanIds :
         (/\ pruned' # pruned /\ pruned'.chan = c /\ CountCase(c, clock)
          /\ chans[c].auto_delete_after_days \in {None, 0})
           => LET keep_n == chans[c].auto_delete_after_segments
                  M == Cardinality(disk[c])
                  selected == pruned'.to_delete
              IN  /\ selected \subseteq disk[c]
                  /\ Cardinality(selected)
                       = IF M > keep_n THEN M - keep_n ELSE 0
                  /\ Oldest(selected, disk[c] \ selected)
                  /\ disk'[c] = disk[c] \ (selected \ pruned'.failed)
                  /\ disk[c] \ selected \subseteq disk'[c]]_vars

\* A prune with keep_n = 1 and no age rule found three segments, all older
\* than the protected cutoff, and removed the two oldest.
C18_Witness ==
    /\ pruned.ran
    /\ LET chan == chans[pruned.chan]
           keep_n == chan.auto_delete_after_segments
       IN  /\ keep_n = 1 /\ chan.auto_delete_after_days \in {None, 0}
           /\ Len(pruned.items) = 3
           /\ \A i \in 1..3 :
                Timestamp(pruned.items[i]) < ProtectAfter(chan, pruned.now)
           /\ pruned.to_delete = {pruned.items[1], pruned.items[2]}
           /\ pruned.failed = {}
           /\ disk[pruned.chan] = {pruned.items[3]}

\* ------------------------------------------------------------------------
\* The reconciliation loop (Command.handle)
\* ------------------------------------------------------------------------
\* transcoder_enforcer.py:111-136: desired_jobs, in insertion order.
RECURSIVE DesiredJobsOf(_, _, _)
DesiredJobsOf(cs, cfg, now) ==
    IF cs = <<>> THEN <<>>
    ELSE (IF cfg[Head(cs)].enabled
          THEN ChannelDesired(cfg[Head(cs)], now) ELSE <<>>)
         \o DesiredJobsOf(Tail(cs), cfg, now)

DesiredJobs(cfg, now) == DesiredJobsOf(ChanSeq, cfg, now)

\* subprocess.Popen returns a handle or raises; it raises once MaxProcs
\* processes have been spawned.
SpawnOutcomes(st) == IF Len(st.procs) < MaxProcs THEN {TRUE, FALSE} ELSE {FALSE}

\* The state a tick works on.
TickState(events) ==
    [running |-> running, lastCmd |-> lastCmd, procs |-> procs,
     playlist |-> playlist, disk |-> disk, pruned |-> pruned,
     events |-> events, failed |-> FALSE]

\* A build wrote the playlist file of channel c.
WritePlaylist(st, c, b) ==
    IF b.playlist = NoWrite THEN st
    ELSE [st EXCEPT !.playlist[c] = b.playlist]

\* proc.terminate(): the signal is sent, the process exits later (or not).
Terminate(st, key) ==
    LET pid == st.running[key]
    IN  [st EXCEPT !.procs[pid].signalled = TRUE,
                   !.events = Append(@, Event("terminate", key, pid, NoCmd))]

\* transcoder_enforcer.py:182-208: build the command and spawn the process.
StartLogic(st, key, cfg, now) ==
    LET chan == cfg[key[2]]
    IN  UNION {
          IF b.status # "ok"
          THEN {[st EXCEPT !.failed = TRUE,
                           !.events = Append(@, Event(b.status, key, 0, NoCmd))]}
          ELSE LET w == WritePlaylist(st, key[2], b)
               IN  {IF spawned
                    THEN [w EXCEPT
                            !.procs = Append(@, [key |-> key, alive |-> TRUE,
                                                 signalled |-> FALSE]),
                            !.running[key] = Len(st.procs) + 1,
                            !.lastCmd[key] = b.cmd,
                            !.events = Append(@, Event("spawn", key,
                                                Len(st.procs) + 1, b.cmd))]
                    ELSE [w EXCEPT
                            !.failed = TRUE,
                            !.events = Append(@, Event("SpawnFailure", key, 0,
                                                       b.cmd))]
                     : spawned \in SpawnOutcomes(st)}
          : b \in BuildOutcomes(chan, key[1], now, st.disk[key[2]])}

\* Variant: a live playback process is restarted whenever its command
\* builds, whether or not the command changed.
StartOne_AlwaysRestart(st, key, cfg, now) ==
    LET proc == st.running[key]
        live == proc # 0 /\ st.procs[proc].alive
        chan == cfg[key[2]]
    IN  IF ~live THEN StartLogic(st, key, cfg, now)
        ELSE IF key[1] # "playback" THEN {st}
        ELSE UNION {
               LET w == [WritePlaylist(st, key[2], b) EXCEPT
                           !.failed = @ \/ b.status # "ok"]
               IN  IF b.status = "ok"
                   THEN StartLogic([Terminate(w, key) EXCEPT !.running[key] = 0],
                                   key, cfg, now)
                   ELSE {w}
               : b \in BuildOutcomes(chan, "playback", now, st.disk[key[2]])}

\* Variant: on drift the process is only terminated; the replacement is
\* left to the next tick.
StartOne_TerminateOnly(st, key, cfg, now) ==
    LET proc == st.running[key]
        live == proc # 0 /\ st.procs[proc].alive
        chan == cfg[key[2]]
    IN  IF ~live THEN StartLogic(st, key, cfg, now)
        ELSE IF key[1] # "playback" THEN {st}
        ELSE UNION {
               LET desired_cmd == IF b.status = "ok" THEN b.cmd ELSE NoCmd
                   last_cmd == st.lastCmd[key]
                   w == [WritePlaylist(st, key[2], b) EXCEPT
                           !.failed = @ \/ b.status # "ok"]
               IN  IF desired_cmd # NoCmd /\ last_cmd # NoCmd
                        /\ desired_cmd # last_cmd
                   THEN {[Terminate(w, key) EXCEPT !.running[key] = 0]}
                   ELSE {IF desired_cmd # NoCmd /\ last_cmd = NoCmd
                         THEN [w EXCEPT !.lastCmd[key] = desired_cmd]
                         ELSE w}
               : b \in BuildOutcomes(chan, "playback", now, st.disk[key[2]])}

\* Variant: a tracked process counts as running even after it has exited.
StartOne_NoPoll(st, key, cfg, now) ==
    IF st.running[key] # 0 THEN {st} ELSE StartLogic(st, key, cfg, now)

\* Variant: a live playback process whose command cannot be rebuilt is
\* terminated and dropped from the table.
StartOne_StopUnbuildable(st, key, cfg, now) ==
    LET proc == st.running[key]
        live == proc # 0 /\ st.procs[proc].alive
        chan == cfg[key[2]]
    IN  IF ~live THEN StartLogic(st, key, cfg, now)
        ELSE IF key[1] # "playback" THEN {st}
        ELSE UNION {
               LET desired_cmd == IF b.status = "ok" THEN b.cmd ELSE NoCmd
                   last_cmd == st.lastCmd[key]
                   w == [WritePlaylist(st, key[2], b) EXCEPT
                           !.failed = @ \/ b.status # "ok"]
               IN  IF desired_cmd = NoCmd
                   THEN {[Terminate(w, key) EXCEPT !.running[key] = 0]}
                   ELSE IF last_cmd # NoCmd /\ desired_cmd # last_cmd
                   THEN StartLogic([Terminate(w, key) EXCEPT !.running[key] = 0],
                                   key, cfg, now)
                   ELSE {IF last_cmd = NoCmd
                         THEN [w EXCEPT !.lastCmd[key] = desired_cmd]
                         ELSE w}
               : b \in BuildOutcomes(chan, "playback", now, st.disk[key[2]])}

\* Variant: on drift the replacement is spawned over the old process,
\* which is not terminated.
StartOne_ReplaceWithoutTerminate(st, key, cfg, now) ==
    LET proc == st.running[key]
        live == proc # 0 /\ st.procs[proc].alive
        chan == cfg[key[2]]
    IN  IF ~live THEN StartLogic(st, key, cfg, now)
        ELSE IF key[1] # "playback" THEN {st}
        ELSE UNION {
               LET desired_cmd == IF b.status = "ok" THEN b.cmd ELSE NoCmd
                   last_cmd == st.lastCmd[key]
                   w == [WritePlaylist(st, key[2], b) EXCEPT
                           !.failed = @ \/ b.status # "ok"]
               IN  IF desired_cmd # NoCmd /\ last_cmd # NoCmd
                        /\ desired_cmd # last_cmd
                   THEN StartLogic(w, key, cfg, now)
                   ELSE {IF desired_cmd # NoCmd /\ last_cmd = NoCmd
                         THEN [w EXCEPT !.lastCmd[key] = desired_cmd]
                         ELSE w}
               : b \in BuildOutcomes(chan, "playback", now, st.disk[key[2]])}

\* Variant: the build of the drift check does not write the playlist.
StartOne_DriftCheckNoWrite(st, key, cfg, now) ==
    LET proc == st.running[key]
        live == proc # 0 /\ st.procs[proc].alive
        chan == cfg[key[2]]
    IN  IF ~live THEN StartLogic(st, key, cfg, now)
        ELSE IF key[1] # "playback" THEN {st}
        ELSE UNION {
               LET desired_cmd == IF b.status = "ok" THEN b.cmd ELSE NoCmd
                   last_cmd == st.lastCmd[key]
                   w == [st EXCEPT !.failed = @ \/ b.status # "ok"]
               IN  IF desired_cmd # NoCmd /\ last_cmd # NoCmd
                        /\ desired_cmd # last_cmd
                   THEN StartLogic([Terminate(w, key) EXCEPT !.running[key] = 0],
                                   key, cfg, now)
                   ELSE {IF desired_cmd # NoCmd /\ last_cmd = NoCmd
                         THEN [w EXCEPT !.lastCmd[key] = desired_cmd]
                         ELSE w}
               : b \in BuildOutcomes(chan, "playback", now, st.disk[key[2]])}

\* transcoder_enforcer.py:139-208: one iteration of "Start missing desired
\* jobs" for a key; the set of states it can end in.
StartOne(st, key, cfg, now) ==
    LET proc == st.running[key]
        live == proc # 0 /\ st.procs[proc].alive
        chan == cfg[key[2]]
    IN  IF ~live THEN StartLogic(st, key, cfg, now)
        ELSE IF key[1] # "playback" THEN {st}
        ELSE UNION {
               LET desired_cmd == IF b.status = "ok" THEN b.cmd ELSE NoCmd
                   last_cmd == st.lastCmd[key]
                   w == [WritePlaylist(st, key[2], b) EXCEPT
                           !.failed = @ \/ b.status # "ok"]
               IN  IF desired_cmd # NoCmd /\ last_cmd # NoCmd
                        /\ desired_cmd # last_cmd
                   THEN StartLogic([Terminate(w, key) EXCEPT !.running[key] = 0],
                                   key, cfg, now)
                   ELSE {IF desired_cmd # NoCmd /\ last_cmd = NoCmd
                         THEN [w EXCEPT !.lastCmd[key] = desired_cmd]
                         ELSE w}
               : b \in BuildOutcomes(chan, "playback", now, st.disk[key[2]])}

\* Variant: the loop over desired_jobs ends at the first failure.
RECURSIVE StartLoop_BreakOnFailure(_, _, _, _)
StartLoop_BreakOnFailure(sts, keys, cfg, now) ==
    IF keys = <<>> THEN sts
    ELSE StartLoop_BreakOnFailure(
             UNION {IF st.failed THEN {st} ELSE StartOne(st, Head(keys), cfg, now)
                      : st \in sts},
             Tail(keys), cfg, now)

\* transcoder_enforcer.py:139: the loop over desired_jobs.
RECURSIVE StartLoop(_, _, _, _)
StartLoop(sts, keys, cfg, now) ==
    IF keys = <<>> THEN sts
    ELSE StartLoop(UNION {StartOne(st, Head(keys), cfg, now) : st \in sts},
                   Tail(keys), cfg, now)

\* The order in which the table is walked by the stop loop.
RECURSIVE KeysOf(_)
KeysOf(cs) ==
    IF cs = <<>> THEN <<>>
    ELSE << <<"record", Head(cs)>>, <<"playback", Head(cs)>> >> \o KeysOf(Tail(cs))

KeyOrder == KeysOf(ChanSeq)

\* Variant: a job that is no longer desired is dropped from the table
\* without being terminated.
StopOne_NoTerminate(st, key, desired) ==
    IF st.running[key] = 0 \/ Contains(desired, key) THEN st
    ELSE [st EXCEPT !.running[key] = 0]

\* transcoder_enforcer.py:211-221: one iteration of "Stop jobs no longer
\* desired".
StopOne(st, key, desired) ==
    IF st.running[key] = 0 \/ Contains(desired, key) THEN st
    ELSE [(IF st.procs[st.running[key]].alive THEN Terminate(st, key) ELSE st)
            EXCEPT !.running[key] = 0]

RECURSIVE StopLoop(_, _, _)
StopLoop(st, keys, desired) ==
    IF keys = <<>> THEN st
    ELSE StopLoop(StopOne(st, Head(keys), desired), Tail(keys), desired)

\* transcoder_enforcer.py:224-230: one iteration of the auto-delete loop.
PruneOne(st, c, cfg, now) ==
    IF ~cfg[c].enabled \/ ~cfg[c].auto_delete_enabled THEN {st}
    ELSE UNION {
           LET to_delete == ToDelete(cfg[c], now, items)
           IN  {[st EXCEPT
                   !.disk[c] = UnlinkAll(@, to_delete, failed),
                   !.pruned = PruneRun(cfg[c], now, items, failed)]
                : failed \in SUBSET to_delete}
           : items \in IterRecordingSegments(st.disk[c])}

RECURSIVE PruneLoop(_, _, _, _)
PruneLoop(sts, cs, cfg, now) ==
    IF cs = <<>> THEN sts
    ELSE PruneLoop(UNION {PruneOne(st, Head(cs), cfg, now) : st \in sts},
                   Tail(cs), cfg, now)

\* transcoder_enforcer.py:109-230: the states one pass of the loop body can
\* end in, given the configuration it read.
TickOutcomes(cfg, now) ==
    LET desired == DesiredJobs(cfg, now)
        started == StartLoop({TickState(<<>>)}, desired, cfg, now)
        stopped == {StopLoop(st, KeyOrder, desired) : st \in started}
    IN  PruneLoop(stopped, ChanSeq, cfg, now)

\* transcoder_enforcer.py:182-208: the states inside the start logic of a
\* key: after the build (playlist written), and after Popen returned but
\* before "running[key] = proc".
StartLogicPoints(st, key, cfg, now) ==
    LET chan == cfg[key[2]]
    IN  UNION {
          IF b.status # "ok" THEN {}
          ELSE LET w == WritePlaylist(st, key[2], b)
               IN  {w} \cup
                   {[w EXCEPT !.procs = Append(@, [key |-> key, alive |-> TRUE,
                                                    signalled |-> FALSE])]
                      : spawned \in SpawnOutcomes(st) \ {FALSE}}
          : b \in BuildOutcomes(chan, key[1], now, st.disk[key[2]])}

\* transcoder_enforcer.py:139-208: the states inside one iteration of the
\* start loop: after the drift build, between proc.terminate() and
\* "del running[key]", after the del, and inside the start logic.
StartOnePoints(st, key, cfg, now) ==
    LET proc == st.running[key]
        live == proc # 0 /\ st.procs[proc].alive
        chan == cfg[key[2]]
    IN  IF ~live THEN StartLogicPoints(st, key, cfg, now)
        ELSE IF key[1] # "playback" THEN {}
        ELSE UNION {
               LET desired_cmd == IF b.status = "ok" THEN b.cmd ELSE NoCmd
                   last_cmd == st.lastCmd[key]
                   w == WritePlaylist(st, key[2], b)
               IN  IF desired_cmd # NoCmd /\ last_cmd # NoCmd
                        /\ desired_cmd # last_cmd
                   THEN {w, Terminate(w, key)} \cup
                        LET d == [Terminate(w, key) EXCEPT !.running[key] = 0]
                        IN  {d} \cup StartLogicPoints(d, key, cfg, now)
                   ELSE {w}
               : b \in BuildOutcomes(chan, "playback", now, st.disk[key[2]])}

\* transcoder_enforcer.py:211-221: the state between proc.terminate() and
\* "del running[key]" of the stop loop.
StopOnePoints(st, key, desired) ==
    IF st.running[key] = 0 \/ Contains(desired, key) THEN {}
    ELSE IF st.procs[st.running[key]].alive THEN {Terminate(st, key)} ELSE {}

\* transcoder_enforcer.py:108-232: the states in which a KeyboardInterrupt
\* can reach the loop: in the sleep, between and inside the iterations of
\* the start loop and of the stop loop, and after the auto-delete loop.
InterruptPoints(cfg, now) ==
    LET desired == DesiredJobs(cfg, now)
        first == {TickState(<<>>)}
        start_points ==
          UNION {UNION {{st} \cup (IF k < Len(desired)
                                   THEN StartOnePoints(st, desired[k + 1], cfg, now)
                                   ELSE {})
                          : st \in StartLoop(first, SubSeq(desired, 1, k), cfg, now)}
                   : k \in 0..Len(desired)}
        started == StartLoop(first, desired, cfg, now)
        stop_points ==
          UNION {UNION {LET s == StopLoop(st, SubSeq(KeyOrder, 1, k), desired)
                        IN  {s} \cup (IF k < Len(KeyOrder)
                                      THEN StopOnePoints(s, KeyOrder[k + 1], desired)
                                      ELSE {})
                          : k \in 0..Len(KeyOrder)}
                   : st \in started}
    IN  first \cup start_points \cup stop_points \cup TickOutcomes(cfg, now)

\* Variant: only the record processes are terminated.
KeyboardInterruptHandler_RecordOnly(st) ==
    [st EXCEPT !.procs =
       [p \in 1..Len(st.procs) |->
          IF /\ st.running[st.procs[p].key] = p /\ st.procs[p].alive
             /\ st.procs[p].key[1] = "record"
          THEN [st.procs[p] EXCEPT !.signalled = TRUE]
          ELSE st.procs[p]]]

\* transcoder_enforcer.py:234-243: every entry of running whose process
\* has not exited is sent terminate().
KeyboardInterruptHandler(st) ==
    [st EXCEPT !.procs =
       [p \in 1..Len(st.procs) |->
          IF st.running[st.procs[p].key] = p /\ st.procs[p].alive
          THEN [st.procs[p] EXCEPT !.signalled = TRUE]
          ELSE st.procs[p]]]

\* ------------------------------------------------------------------------
\* Spec: the enforcer, its processes, the configuration store and the disk
\* ------------------------------------------------------------------------
\* First and last instant of the enforcer's run.
EnfStart == PruneStart + 1
EnfEnd == EnfStart + (MaxTicks * POLL_INTERVAL)

\* Output targets of the channel rows at start, and those an edit can set
\* (TargetA followed by a space builds the same command as TargetA).
InitTargets == {<<>>, TargetA}
EnfTargets == {<<>>, TargetA, TargetB, TargetA \o <<" ">>}
EnfProfiles == {NoProfile, Profile(TRUE, 1)}
\* Profiles an edit can set: those, and one whose delay is over a day.
EditProfiles == EnfProfiles \cup {Profile(TRUE, DayLen + 1)}

\* Channel rows of the enforcer's runs: scheduled from 01:00 to midnight
\* (of a day of DayLen hours), retention off or "keep the last segment".
EnfChannels(id) ==
    {[DefaultChannel(id) EXCEPT
         !.output_target = t, !.profile = p,
         !.start_time = 1, !.end_time = None,
         !.auto_delete_enabled = r, !.auto_delete_after_segments = 1] :
       t \in InitTargets, p \in EnfProfiles, r \in BOOLEAN}

EnfDisks == {{}, {NamedFile(0), NamedFile(EnfStart - 1)}}

Init ==
    /\ clock = EnfStart
    /\ chans \in {f \in [ChanIds -> UNION {EnfChannels(i) : i \in ChanIds}] :
                     \A i \in ChanIds : f[i].id = i}
    /\ disk \in [ChanIds -> EnfDisks]
    /\ playlist = [c \in ChanIds |-> <<>>]
    /\ running = [k \in Keys |-> 0]
    /\ lastCmd = [k \in Keys |-> NoCmd]
    /\ procs = <<>>
    /\ pc = "loop"
    /\ tick = NoTick
    /\ since = Quiet
    /\ pruned = NoPrune
    /\ built = NoBuild
    /\ desired_jobs = <<>>
    /\ listing = <<>>

\* Keys whose tracked process is alive (proc.poll() is None).
LiveKeys == {k \in Keys : running[k] # 0 /\ procs[running[k]].alive}

\* The tick about to run follows a tick and nothing changed since that
\* tick began its builds: no edit of the configuration, no change of the
\* disk, no exit of a tracked process, the same schedule outcome.
Steady(active) ==
    /\ tick.n >= 1
    /\ since.edit = "none" /\ ~since.diskChanged /\ ~since.exited
    /\ tick.active = active

\* An event of the environment, counted.
EnvEvent == since.count < MaxEvents

\* transcoder_enforcer.py:108-232: one pass of the loop body, the sleep
\* included.
Tick ==
    /\ pc = "loop"
    /\ clock < EnfEnd
    /\ \E st \in TickOutcomes(chans, clock) :
         LET active == [c \in ChanIds |-> is_active_now(chans[c], clock)]
         IN  /\ running' = st.running
             /\ lastCmd' = st.lastCmd
             /\ procs' = st.procs
             /\ playlist' = st.playlist
             /\ disk' = st.disk
             /\ pruned' = st.pruned
             /\ tick' = [n |-> IF tick.n < 2 THEN tick.n + 1 ELSE 2,
                         active |-> active,
                         events |-> st.events,
                         failed |-> st.failed,
                         edit |-> since.edit,
                         steady |-> Steady(active),
                         prevFailed |-> tick.failed]
             /\ since' = [Quiet EXCEPT !.diskChanged = (st.disk # disk),
                                       !.count = since.count]
    /\ clock' = clock + POLL_INTERVAL
    /\ UNCHANGED <<desired_jobs, listing>>
    /\ UNCHANGED <<chans, pc, built>>

\* transcoder_enforcer.py:107-108, 234-243: a KeyboardInterrupt reaches the
\* loop at one of its points; the handler runs and handle() returns.
Shutdown ==
    /\ pc = "loop"
    /\ EnvEvent
    /\ \E pt \in InterruptPoints(chans, clock) :
         LET st == KeyboardInterruptHandler(pt)
         IN  /\ running' = st.running
             /\ lastCmd' = st.lastCmd
             /\ procs' = st.procs
             /\ playlist' = st.playlist
             /\ disk' = st.disk
             /\ pruned' = st.pruned
    /\ pc' = "stopped"
    /\ since' = [since EXCEPT !.count = @ + 1]
    /\ UNCHANGED <<desired_jobs, listing>>
    /\ UNCHANGED <<clock, chans, tick, built>>

\* transcoder_enforcer.py:107-111: reading the channels raises; the
\* exception is not a KeyboardInterrupt and leaves handle().
ConfigReadFails ==
    /\ pc = "loop"
    /\ EnvEvent
    /\ pc' = "crashed"
    /\ since' = [since EXCEPT !.count = @ + 1]
    /\ UNCHANGED <<desired_jobs, listing>>
    /\ UNCHANGED <<clock, chans, disk, playlist, running, lastCmd, procs,
                   tick, pruned, built>>

\* A spawned ffmpeg process exits (end of input, error, or the signal).
ProcExit(p) ==
    /\ p \in 1..Len(procs)
    /\ procs[p].alive
    /\ EnvEvent
    /\ procs' = [procs EXCEPT ![p].alive = FALSE]
    /\ since' = [since EXCEPT !.exited = @ \/ running[procs[p].key] = p,
                              !.count = @ + 1]
    /\ UNCHANGED <<desired_jobs, listing>>
    /\ UNCHANGED <<clock, chans, disk, playlist, running, lastCmd, pc,
                   tick, pruned, built>>

\* A live record process opens a new segment file, named after the time.
SegmentWritten(c) ==
    /\ pc = "loop"
    /\ \E p \in 1..Len(procs) :
         procs[p].alive /\ procs[p].key = <<"record", c>>
    /\ NamedFile(clock) \notin disk[c]
    /\ Cardinality(disk[c]) < MaxFiles
    /\ EnvEvent
    /\ disk' = [disk EXCEPT ![c] = @ \cup {NamedFile(clock)}]
    /\ since' = [since EXCEPT !.diskChanged = TRUE, !.count = @ + 1]
    /\ UNCHANGED <<desired_jobs, listing>>
    /\ UNCHANGED <<clock, chans, playlist, running, lastCmd, procs, pc,
                   tick, pruned, built>>

\* The administrator changes the output target of a channel.
SetOutputTarget(c, t) ==
    /\ pc = "loop"
    /\ t # chans[c].output_target
    /\ EnvEvent
    /\ chans' = [chans EXCEPT ![c].output_target = t]
    /\ since' = [since EXCEPT !.edit = IF @ = "other" THEN "other" ELSE "target",
                              !.count = @ + 1]
    /\ UNCHANGED <<desired_jobs, listing>>
    /\ UNCHANGED <<clock, disk, playlist, running, lastCmd, procs, pc,
                   tick, pruned, built>>

\* The administrator enables or disables a channel (admin.py:176-209).
SetChannelEnabled(c) ==
    /\ pc = "loop"
    /\ EnvEvent
    /\ chans' = [chans EXCEPT ![c].enabled = ~@]
    /\ since' = [since EXCEPT !.edit = "other", !.count = @ + 1]
    /\ UNCHANGED <<desired_jobs, listing>>
    /\ UNCHANGED <<clock, disk, playlist, running, lastCmd, procs, pc,
                   tick, pruned, built>>

\* The administrator changes the time-shift profile of a channel.
SetProfile(c, p) ==
    /\ pc = "loop"
    /\ p # chans[c].profile
    /\ EnvEvent
    /\ chans' = [chans EXCEPT ![c].profile = p]
    /\ since' = [since EXCEPT !.edit = "other", !.count = @ + 1]
    /\ UNCHANGED <<desired_jobs, listing>>
    /\ UNCHANGED <<clock, disk, playlist, running, lastCmd, procs, pc,
                   tick, pruned, built>>

Next ==
    \/ Tick
    \/ Shutdown
    \/ ConfigReadFails
    \/ \E p \in 1..MaxProcs : ProcExit(p)
    \/ \E c \in ChanIds : SegmentWritten(c)
    \/ \E c \in ChanIds, t \in EnfTargets : SetOutputTarget(c, t)
    \/ \E c \in ChanIds : SetChannelEnabled(c)
    \/ \E c \in ChanIds, p \in EditProfiles : SetProfile(c, p)

Spec == Init /\ [][Next]_vars

\* ------------------------------------------------------------------------
\* Properties of the tick
\* ------------------------------------------------------------------------
\* A step of the enforcer's loop body (only Tick moves the clock of Spec).
TickStep == clock' # clock

\* The events of a key, and the operations among them.
EventsOf(events, key) == SelectSeq(events, LAMBDA e : e.key = key)

RECURSIVE Ops(_)
Ops(events) ==
    IF events = <<>> THEN <<>> ELSE <<Head(events).op>> \o Ops(Tail(events))

OpsOf(events, key) == Ops(EventsOf(events, key))

\* Failures the start step logs for a key.
FailOps == {"NotReady", "InvalidConfig", "Error", "SpawnFailure"}

\* Calls to the process manager: terminate, Popen (successful or not).
CallOps == {"terminate", "spawn", "SpawnFailure"}

Calls(events) == SelectSeq(events, LAMBDA e : e.op \in CallOps)

RecordKey(c) == <<"record", c>>
PlaybackKey(c) == <<"playback", c>>

DriftCase(c) ==
    /\ since.edit = "target"
    /\ {RecordKey(c), PlaybackKey(c)} \subseteq LiveKeys
    /\ Contains(DesiredJobs(chans, clock), PlaybackKey(c))
    /\ has_udp_out(chans[c])
    /\ NormalizeOutput(chans[c].output_target) # lastCmd[PlaybackKey(c)].url

Processed(key) ==
    \/ key \in LiveKeys /\ running'[key] = running[key]
    \/ \E i \in DOMAIN tick'.events :
          tick'.events[i].key = key /\ tick'.events[i].op \in FailOps \cup {"spawn"}

\* The start step logged a failure for a key.
FailedIn(events, key) ==
    \E i \in DOMAIN events : events[i].key = key /\ events[i].op \in FailOps

C6_TableWithinDesired ==
    [][TickStep =>
          \A k \in Keys :
             /\ running'[k] # 0 => Contains(DesiredJobs(chans, clock), k)
             /\ (running[k] # 0 /\ ~Contains(DesiredJobs(chans, clock), k))
                  => /\ running'[k] = 0
                     /\ procs[running[k]].alive
                          => /\ procs'[running[k]].signalled
                             /\ \E i \in DOMAIN tick'.events :
                                   tick'.events[i] =
                                     Event("terminate", k, running[k], NoCmd)]_vars

\* A tick terminated a live process whose key had left the desired set and
\* dropped it from the table.
C6_Witness ==
    \E k \in Keys :
       /\ running[k] = 0
       /\ OpsOf(tick.events, k) = <<"terminate">>
       /\ \E p \in DOMAIN procs : procs[p].key = k /\ procs[p].signalled

\* C7: when the tracked process of a desired key has exited, the tick
\* either logs a build or spawn failure for the key or spawns a new
\* process for it, which the table then holds.
C7_ExitedJobRestarted ==
    [][TickStep =>
          \A k \in Range(DesiredJobs(chans, clock)) :
             (running[k] # 0 /\ ~procs[running[k]].alive)
               => \/ FailedIn(tick'.events, k)
                  \/ /\ OpsOf(tick'.events, k) = <<"spawn">>
                     /\ running'[k] > running[k]
                     /\ procs'[running'[k]].alive
                     /\ procs'[running'[k]].key = k]_vars

\* A tick replaced a process that had exited on its own.
C7_Witness ==
    \E k \in LiveKeys :
       /\ OpsOf(tick.events, k) = <<"spawn">>
       /\ \E p \in DOMAIN procs :
             /\ procs[p].key = k /\ p < running[k]
             /\ ~procs[p].alive /\ ~procs[p].signalled

\* ------------------------------------------------------------------------
\* The desired set as a function of the configuration and the time
\* ------------------------------------------------------------------------
\* Number of days the evaluation of the desired set is explored over.
MaxDays == 3

OnlyMonday == <<TRUE, FALSE, FALSE, FALSE, FALSE, FALSE, FALSE>>
Blank == <<" ">>

\* start_time / end_time pairs: unset, same-day windows, an overnight
\* window and a full-day window.
DesiredWindows == {<<None, None>>, <<1, 2>>, <<1, 3>>, <<3, 1>>, <<2, 2>>}

DesiredProfiles ==
    {NoProfile, Profile(FALSE, 1), Profile(TRUE, 0), Profile(TRUE, 1),
     Profile(TRUE, 2)}

DesiredChannels(id) ==
    {[DefaultChannel(id) EXCEPT
        !.enabled = e, !.weekday_flags = wd,
        !.start_time = w[1], !.end_time = w[2],
        !.date_from = d, !.date_to = d,
        !.output_type = ot, !.output_target = t,
        !.record_enabled = r, !.profile = p]
       : e \in BOOLEAN, wd \in {AllWeek, OnlyMonday}, w \in DesiredWindows,
         d \in {None, 1}, ot \in {"udp_ts", "hls"},
         t \in {<<>>, Blank, TargetA}, r \in BOOLEAN, p \in DesiredProfiles}

InitDesired ==
    /\ clock = 0
    /\ chans \in {f \in [ChanIds -> UNION {DesiredChannels(i) : i \in ChanIds}] :
                     \A i \in ChanIds : f[i].id = i}
    /\ disk = [c \in ChanIds |-> {}]
    /\ playlist = [c \in ChanIds |-> <<>>]
    /\ running = [k \in Keys |-> 0]
    /\ lastCmd = [k \in Keys |-> NoCmd]
    /\ procs = <<>>
    /\ pc = "evaluate"
    /\ tick = NoTick
    /\ since = Quiet
    /\ pruned = NoPrune
    /\ built = NoBuild
    /\ desired_jobs = <<>>
    /\ listing = <<>>

\* transcoder_enforcer.py:109-136: the enabled channels are read and the
\* desired jobs are computed for now = clock.
EvaluateDesired ==
    /\ pc = "evaluate"
    /\ desired_jobs' = DesiredJobs(chans, clock)
    /\ pc' = "evaluated"
    /\ UNCHANGED listing
    /\ UNCHANGED <<clock, chans, disk, playlist, running, lastCmd, procs,
                   tick, since, pruned, built>>

\* Time passes until the next evaluation.
AdvanceDesired ==
    /\ pc = "evaluated"
    /\ clock + 1 < MaxDays * DayLen
    /\ clock' = clock + 1
    /\ pc' = "evaluate"
    /\ desired_jobs' = <<>>
    /\ UNCHANGED listing
    /\ UNCHANGED <<chans, disk, playlist, running, lastCmd, procs,
                   tick, since, pruned, built>>

NextDesired ==
    \/ EvaluateDesired
    \/ AdvanceDesired

SpecDesired == InitDesired /\ [][NextDesired]_vars

\* The schedule window of a channel that starts on day d ends at this
\* instant (an overnight window ends on the day after).
WindowEnd(chan, d) ==
    LET start_time == IF chan.start_time = None THEN 0 ELSE chan.start_time
        end_time   == IF chan.end_time = None THEN 0 ELSE chan.end_time
    IN  IF start_time < end_time THEN d * DayLen + end_time
                                 ELSE (d + 1) * DayLen + end_time

\* The schedule has a window starting on day d.
WindowStartsOn(chan, d) ==
    /\ chan.date_from # None => d >= chan.date_from
    /\ chan.date_to # None => d <= chan.date_to
    /\ chan.weekday_flags[((d + 14) % 7) + 1]

\* The most recent instant, at or before now, at which a schedule window
\* of the channel ended (None when there is none within 8 days, or when
\* the schedule is a full-day one).
LastEnd(chan, now) ==
    LET start_time == IF chan.start_time = None THEN 0 ELSE chan.start_time
        end_time   == IF chan.end_time = None THEN 0 ELSE chan.end_time
        ends == {WindowEnd(chan, LocalDate(now) - k) : k \in
                   {k \in 0..8 : /\ WindowStartsOn(chan, LocalDate(now) - k)
                                  /\ WindowEnd(chan, LocalDate(now) - k) <= now}}
    IN  IF start_time = end_time \/ ends = {} THEN None
        ELSE CHOOSE e \in ends : \A x \in ends : x <= e

\* The output of a channel is UDP-TS with a target that is not blank.
UdpTarget(chan) ==
    /\ chan.output_type = "udp_ts"
    /\ \E i \in DOMAIN chan.output_target : chan.output_target[i] # " "

\* An enabled channel in time-shift mode with a UDP output.
TimeShiftUdp(chan) ==
    /\ chan.enabled /\ ProfileEnabled(chan) /\ ProfileDelay(chan) > 0
    /\ UdpTarget(chan)

\* C8: for a channel in time-shift mode (tail extension taken as enabled)
\* the playback job is desired at every instant after the last schedule
\* end and up to delay later, is not desired after that while the schedule
\* is inactive, and the record job is desired exactly while the schedule
\* is active.
C8_TailExtension ==
    pc = "evaluated" =>
      \A c \in ChanIds :
         LET chan == chans[c]
             last == LastEnd(chan, clock)
             tail == /\ last # None /\ last < clock
                     /\ clock <= last + ProfileDelay(chan)
         IN  TimeShiftUdp(chan) =>
               /\ tail => Contains(desired_jobs, PlaybackKey(c))
               /\ (~tail /\ ~is_active_now(chan, clock))
                    => ~Contains(desired_jobs, PlaybackKey(c))
               /\ Contains(desired_jobs, RecordKey(c))
                    <=> is_active_now(chan, clock)

\* C9: for every enabled channel the record job is desired exactly when
\* the recording flag of the channel is on and its schedule is active.
C9_RecordDesired ==
    pc = "evaluated" =>
      \A c \in ChanIds :
         chans[c].enabled =>
           (Contains(desired_jobs, RecordKey(c))
              <=> chans[c].record_enabled /\ is_active_now(chans[c], clock))

\* C10: for an enabled channel whose schedule is active the playback job
\* is desired exactly when the output is UDP-TS with a non-blank target,
\* in live mode and in time-shift mode alike; without such a target the
\* playback job is never desired.
C10_PlaybackDesired ==
    pc = "evaluated" =>
      \A c \in ChanIds :
         /\ (chans[c].enabled /\ is_active_now(chans[c], clock))
              => (Contains(desired_jobs, PlaybackKey(c)) <=> UdpTarget(chans[c]))
         /\ ~UdpTarget(chans[c]) => ~Contains(desired_jobs, PlaybackKey(c))

\* An evaluation found the playback job of a time-shift channel desired
\* next to its record job, during a same-day schedule window.
C10_Witness ==
    /\ pc = "evaluated"
    /\ \E c \in ChanIds :
          /\ desired_jobs = <<RecordKey(c), PlaybackKey(c)>>
          /\ chans[c].start_time # None
          /\ chans[c].start_time < chans[c].end_time
          /\ ProfileDelay(chans[c]) > 0

\* ------------------------------------------------------------------------
\* SpecBuild: the command builder and the segment listing on their own
\* ------------------------------------------------------------------------
\* A file with a conforming name that was last written at m.
LateFile(t, m) == [path |-> 200 + t, stamp |-> t, mtime |-> m]

BuildStart == WindowSeconds + 1

BuildFiles ==
    {NamedFile(0), NamedFile(2), LateFile(1, 3), LateFile(3, 4), OddFile(1, 1)}

BuildProfiles ==
    {NoProfile, Profile(FALSE, 1), Profile(TRUE, 0), Profile(TRUE, 1),
     Profile(TRUE, DayLen), Profile(TRUE, DayLen + 1)}

\* output_type and output_target of the channel rows.
BuildOutputs ==
    {<<"udp_ts", <<>>>>, <<"udp_ts", Blank>>, <<"udp_ts", TargetA>>,
     <<"udp_ts", TargetB>>, <<"hls", TargetA>>}

BuildChannels(id) ==
    {[DefaultChannel(id) EXCEPT
        !.output_type = o[1], !.output_target = o[2], !.profile = p]
       : o \in BuildOutputs, p \in BuildProfiles}

InitBuild ==
    /\ clock = BuildStart
    /\ chans \in {f \in [ChanIds -> UNION {BuildChannels(i) : i \in ChanIds}] :
                     \A i \in ChanIds : f[i].id = i}
    /\ disk \in [ChanIds -> {S \in SUBSET BuildFiles : Cardinality(S) <= MaxFiles}]
    /\ playlist = [c \in ChanIds |-> <<>>]
    /\ running = <<>>
    /\ lastCmd = <<>>
    /\ procs = <<>>
    /\ pc = "build"
    /\ tick = NoTick
    /\ since = Quiet
    /\ pruned = NoPrune
    /\ built = NoBuild
    /\ desired_jobs = <<>>
    /\ listing = <<>>

\* The (timestamp, path) pairs of a sequence of files.
Pairs(files) == [i \in 1..Len(files) |-> <<Timestamp(files[i]), files[i].path>>]

\* ffmpeg_runner.py:248-287 applied to the recordings of channel c.
ListSegments(c) ==
    /\ \E segments \in IterRecordingSegments(disk[c]) :
          listing' = Pairs(segments)
    /\ UNCHANGED <<clock, chans, disk, playlist, running, lastCmd, procs, pc,
                   tick, since, pruned, built, desired_jobs>>

\* Time passes; the histories of the instant are forgotten.
AdvanceBuild ==
    /\ clock < MaxTime
    /\ clock' = clock + 1
    /\ built' = NoBuild
    /\ listing' = <<>>
    /\ UNCHANGED <<chans, disk, playlist, running, lastCmd, procs, pc,
                   tick, since, pruned, desired_jobs>>

NextBuild ==
    \/ \E c \in ChanIds : BuildPlayback(c)
    \/ \E c \in ChanIds : ListSegments(c)
    \/ AdvanceBuild

SpecBuild == InitBuild /\ [][NextBuild]_vars

\* No file of the set has its timestamp in [now - delay - window, now - delay].
NoSegmentInWindow(chan, now, files) ==
    \A f \in files :
       ~(/\ now - ProfileDelay(chan) - WindowSeconds <= Timestamp(f)
         /\ Timestamp(f) <= now - ProfileDelay(chan))

\* C11: a playback build for an enabled profile with a delay of 1 to one
\* day and a valid UDP target, when no segment has its timestamp in the
\* window, fails with NotReady and writes no playlist: the playlist file
\* of the channel is as it was.
C11_NotReadyWithoutSegments ==
    [][\A c \in ChanIds :
          (/\ built' # built /\ built'.ran /\ built'.chan = c
           /\ ProfileEnabled(chans[c])
           /\ ProfileDelay(chans[c]) \in 1..DayLen
           /\ UdpTarget(chans[c])
           /\ NoSegmentInWindow(chans[c], clock, disk[c]))
          => /\ built'.status = "NotReady"
             /\ built'.playlist = NoWrite
             /\ playlist' = playlist]_vars

\* A build failed with NotReady although recordings exist and an earlier
\* build had written a playlist, which is still there.
C11_Witness ==
    /\ built.ran /\ built.status = "NotReady"
    /\ disk[built.chan] # {}
    /\ playlist[built.chan] # <<>>

\* C12: a playback build with the profile missing or disabled, or with a
\* delay of 0 or less, and a valid UDP target does not list the recorded
\* segments, writes no playlist and does not fail with NotReady, whatever
\* the recordings are.
C12_LiveBuildNeverReadsSegments ==
    [][\A c \in ChanIds :
          (/\ built' # built /\ built'.ran /\ built'.chan = c
           /\ UdpTarget(chans[c])
           /\ ~ProfileEnabled(chans[c]) \/ ProfileDelay(chans[c]) <= 0)
          => /\ ~built'.listed
             /\ built'.playlist = NoWrite
             /\ playlist' = playlist
             /\ built'.status # "NotReady"]_vars

\* A live command was built for an enabled profile with delay 0 while the
\* recordings held no segment.
C12_Witness ==
    /\ built.ran /\ built.status = "ok" /\ built.cmd.mode = "live"
    /\ ~built.listed
    /\ ProfileEnabled(chans[built.chan])
    /\ disk[built.chan] = {}

NoDay == <<FALSE, FALSE, FALSE, FALSE, FALSE, FALSE, FALSE>>

\* start_time / end_time pairs: equal (set or unset), same-day windows and
\* overnight windows.
ScheduleWindows ==
    {<<None, None>>, <<None, 0>>, <<0, None>>, <<2, 2>>,
     <<1, 3>>, <<1, 2>>, <<None, 2>>,
     <<3, 1>>, <<2, None>>}

\* date_from / date_to pairs.
ScheduleDates == {<<None, None>>, <<1, None>>, <<None, 1>>, <<1, 1>>}

ScheduleChannels(id) ==
    {[DefaultChannel(id) EXCEPT
        !.enabled = e, !.weekday_flags = wd,
        !.start_time = w[1], !.end_time = w[2],
        !.date_from = d[1], !.date_to = d[2]]
       : e \in BOOLEAN, wd \in {AllWeek, OnlyMonday, NoDay},
         w \in ScheduleWindows, d \in ScheduleDates}

InitSchedule ==
    /\ clock = 0
    /\ chans \in {f \in [ChanIds -> UNION {ScheduleChannels(i) : i \in ChanIds}] :
                     \A i \in ChanIds : f[i].id = i}
    /\ disk = [c \in ChanIds |-> {}]
    /\ playlist = [c \in ChanIds |-> <<>>]
    /\ running = [k \in Keys |-> 0]
    /\ lastCmd = [k \in Keys |-> NoCmd]
    /\ procs = <<>>
    /\ pc = "evaluate"
    /\ tick = NoTick
    /\ since = Quiet
    /\ pruned = NoPrune
    /\ built = NoBuild
    /\ desired_jobs = <<>>
    /\ listing = <<>>

\* models.py:230-284 applied to every channel at now = clock.
EvaluateSchedule ==
    /\ pc = "evaluate"
    /\ tick' = [NoTick EXCEPT
                  !.n = 1,
                  !.active = [c \in ChanIds |-> is_active_now(chans[c], clock)]]
    /\ pc' = "evaluated"
    /\ UNCHANGED <<clock, chans, disk, playlist, running, lastCmd, procs,
                   since, pruned, built, desired_jobs, listing>>

\* Time passes until the next evaluation.
AdvanceSchedule ==
    /\ pc = "evaluated"
    /\ clock + 1 < MaxDays * DayLen
    /\ clock' = clock + 1
    /\ tick' = NoTick
    /\ pc' = "evaluate"
    /\ UNCHANGED <<chans, disk, playlist, running, lastCmd, procs,
                   since, pruned, built, desired_jobs, listing>>

NextSchedule ==
    \/ EvaluateSchedule
    \/ AdvanceSchedule

SpecSchedule == InitSchedule /\ [][NextSchedule]_vars

\* Start and end of the schedule of a channel, 00:00 when unset.
StartOf(chan) == IF chan.start_time = None THEN 0 ELSE chan.start_time
EndOf(chan) == IF chan.end_time = None THEN 0 ELSE chan.end_time

\* The day of now is an enabled weekday within [date_from, date_to].
OnEnabledDay(chan, now) ==
    /\ chan.weekday_flags[((now \div DayLen) % 7) + 1]
    /\ chan.date_from = None \/ chan.date_from <= now \div DayLen
    /\ chan.date_to = None \/ now \div DayLen <= chan.date_to

\* C14: with start = end (unset times count as 00:00) the schedule of a
\* channel is active at every time of day exactly when the channel is
\* enabled and the day is an enabled weekday within the date range.
C14_FullDaySchedule ==
    pc = "evaluated" =>
      \A c \in ChanIds :
         StartOf(chans[c]) = EndOf(chans[c])
           => (tick.active[c] <=> chans[c].enabled /\ OnEnabledDay(chans[c], clock))

\* A full-day schedule with unset times was found active in the last hour
\* of a day inside a date range.
C14_Witness ==
    /\ pc = "evaluated"
    /\ \E c \in ChanIds :
          /\ chans[c].start_time = None /\ chans[c].end_time = None
          /\ chans[c].date_from # None
          /\ clock % DayLen = DayLen - 1
          /\ tick.active[c]

\* C15: with start < end, on an enabled weekday within the date range, the
\* schedule of an enabled channel is active exactly when
\* start <= time of day < end.
C15_SameDayWindow ==
    pc = "evaluated" =>
      \A c \in ChanIds :
         (/\ StartOf(chans[c]) < EndOf(chans[c])
          /\ chans[c].enabled /\ OnEnabledDay(chans[c], clock))
           => (tick.active[c] <=> /\ StartOf(chans[c]) <= clock % DayLen
                                  /\ clock % DayLen < EndOf(chans[c]))

\* A same-day window was found inactive at exactly its end, on an enabled
\* day.
C15_Witness ==
    /\ pc = "evaluated"
    /\ \E c \in ChanIds :
          /\ StartOf(chans[c]) < EndOf(chans[c])
          /\ chans[c].enabled /\ OnEnabledDay(chans[c], clock)
          /\ clock % DayLen = EndOf(chans[c])
          /\ ~tick.active[c]

\* C16: with start > end, on an enabled weekday within the date range, the
\* schedule of an enabled channel is active exactly when the time of day
\* is at or after start, or before end.
C16_OvernightWindow ==
    pc = "evaluated" =>
      \A c \in ChanIds :
         (/\ StartOf(chans[c]) > EndOf(chans[c])
          /\ chans[c].enabled /\ OnEnabledDay(chans[c], clock))
           => (tick.active[c] <=> \/ clock % DayLen >= StartOf(chans[c])
                                  \/ clock % DayLen < EndOf(chans[c]))

\* An overnight window was found active before its end, in the morning.
C16_Witness ==
    /\ pc = "evaluated"
    /\ \E c \in ChanIds :
          /\ StartOf(chans[c]) > EndOf(chans[c])
          /\ clock % DayLen < EndOf(chans[c])
          /\ tick.active[c]

\* Every file of the set is named <channel>_YYYYMMDD-HHMMSS.ts with a
\* valid timestamp, and no two files share a timestamp.
DistinctValidNames(files) ==
    /\ \A f \in files : f.stamp # None
    /\ \A f, g \in files : f # g => f.stamp # g.stamp

\* C17: when every file is named <channel>_YYYYMMDD-HHMMSS.ts with distinct
\* valid timestamps, the listing returns every file exactly once, paired
\* with the timestamp parsed from its name, in strictly ascending timestamp
\* order, whatever order the directory enumerates them in.
C17_ListingSortedByNameTimestamp ==
    [][\A c \in ChanIds :
         (listing' # listing /\ listing' # <<>> /\ DistinctValidNames(disk[c]))
           => /\ Len(listing') = Cardinality(disk[c])
              /\ \A f \in disk[c] :
                   /\ Cardinality({i \in 1..Len(listing') :
                                     listing'[i][2] = f.path}) = 1
                   /\ \E i \in 1..Len(listing') :
                        listing'[i] = <<f.stamp, f.path>>
              /\ \A i \in 1..(Len(listing') - 1) :
                   listing'[i][1] < listing'[i + 1][1]]_vars

\* A listing of three well-named files, one of them modified long after
\* the time in its name.
C17_Witness ==
    /\ Len(listing) = 3
    /\ \E c \in ChanIds :
          /\ DistinctValidNames(disk[c])
          /\ \E f \in disk[c] : f.mtime # f.stamp
          /\ \A f \in disk[c] : \E i \in 1..3 : listing[i][2] = f.path

\* ------------------------------------------------------------------------
\* Leaving the loop
\* ------------------------------------------------------------------------
\* Every process that is in the running table and has not exited has been
\* sent terminate().
TrackedLiveSignalled ==
    \A k \in Keys :
       (running[k] # 0 /\ procs[running[k]].alive)
         => procs[running[k]].signalled

\* C19: when the enforcer has returned after a shutdown signal, delivered
\* at whatever point of the loop, every process that is tracked in the
\* running table and still alive has been sent a terminate.
C19_ShutdownTerminatesTracked ==
    pc = "stopped" => TrackedLiveSignalled

\* The signal arrived between the spawn of the playback process and its
\* entry in the table, while the record process was tracked and alive: the
\* record process has been terminated.
C19_Witness ==
    /\ pc = "stopped"
    /\ \E c \in ChanIds :
          /\ running[<<"record", c>>] # 0
          /\ procs[running[<<"record", c>>]].alive
          /\ procs[running[<<"record", c>>]].signalled
          /\ \E p \in 1..Len(procs) :
                /\ procs[p].key = <<"playback", c>> /\ procs[p].alive
                /\ running[<<"playback", c>>] # p

\* C20: when the loop has ended because reading the configuration failed,
\* no tracked process is left alive without having been sent a terminate.
C20_ConfigFailureTerminatesTracked ==
    pc = "crashed" => TrackedLiveSignalled

\* C21: once the enforcer has returned, every process it sent a terminate
\* to is not alive: the graceful signal was followed by a bounded wait and
\* a forceful kill of a process that had not exited.
C21_TerminatedNotAlive ==
    pc = "stopped" =>
      \A p \in 1..Len(procs) : procs[p].signalled => ~procs[p].alive

\* C22: the pruner is throttled to a cadence slower than the poll interval:
\* two consecutive ticks never both prune the same channel.
C22_PruneThrottled ==
    [][(TickStep /\ pruned.ran /\ pruned.now = clock - POLL_INTERVAL)
         => ~(pruned'.ran /\ pruned'.now = clock
                /\ pruned'.chan = pruned.chan)]_vars

\* ------------------------------------------------------------------------
\* The time-shift playlist
\* ------------------------------------------------------------------------
\* The files of channel c whose timestamp lies in [target - window, target]
\* for target = now - delay.
InWindow(c, now) ==
    {f \in disk[c] :
       /\ now - ProfileDelay(chans[c]) - WindowSeconds <= Timestamp(f)
       /\ Timestamp(f) <= now - ProfileDelay(chans[c])}

\* C23: a successful time-shift build writes a playlist that lists exactly
\* the segments with target - window <= timestamp <= target, one line per
\* segment, in ascending timestamp order, and no segment newer than target.
C23_PlaylistIsWindow ==
    [][\A c \in ChanIds :
          (/\ built' # built /\ built'.chan = c
           /\ built'.status = "ok" /\ built'.cmd.mode = "timeshift")
          => /\ built'.playlist # NoWrite
             /\ playlist'[c] = built'.playlist
             /\ Range(built'.playlist) = InWindow(c, clock)
             /\ Len(built'.playlist) = Cardinality(InWindow(c, clock))
             /\ \A i \in 1..(Len(built'.playlist) - 1) :
                   Timestamp(built'.playlist[i])
                     <= Timestamp(built'.playlist[i + 1])
             /\ \A i \in 1..Len(built'.playlist) :
                   Timestamp(built'.playlist[i])
                     <= clock - ProfileDelay(chans[c])]_vars

\* A playlist was written from a segment at exactly target - window and one
\* at exactly target, while a segment newer than target was on the disk.
C23_Witness ==
    /\ built.ran /\ built.status = "ok" /\ built.cmd.mode = "timeshift"
    /\ LET c == built.chan
           target == built.now - ProfileDelay(chans[c])
       IN  /\ Len(built.playlist) = 2
           /\ Timestamp(built.playlist[1]) = target - WindowSeconds
           /\ Timestamp(built.playlist[2]) = target
           /\ \E f \in disk[c] : Timestamp(f) > target

\* ------------------------------------------------------------------------
\* SpecUrl: output normalisation over output targets
\* ------------------------------------------------------------------------
\* Queries: "?" and up to MaxParams distinct parameters joined with "&".
RECURSIVE QueriesOf(_, _)
QueriesOf(params, n) ==
    IF n = 0 THEN {<<>>}
    ELSE {<<>>} \cup
         UNION {{<<p, "v">> \o (IF rest = <<>> THEN <<>> ELSE <<"&">> \o rest)
                   : rest \in QueriesOf(params \ {p}, n - 1)}
                  : p \in params}

UrlQueries ==
    {IF q = <<>> THEN <<>> ELSE <<"?">> \o q
       : q \in QueriesOf({"pkt_size=", "ttl=", "x="}, MaxParams)}

\* Scheme and address: plain, with "@" before the address, another scheme,
\* and a target that names two addresses.
UrlHosts ==
    UNION {{<<"udp://", ip>>, <<"udp://", "@", ip>>, <<"rtp://", ip>>}
             : ip \in IpTokens}
    \cup {<<"udp://", "ip10", ":port", "udp://", "ip239">>}

\* Output targets an administrator can type: optional text or whitespace
\* before the scheme, a port, a query, trailing whitespace.
UrlTargets ==
    {lead \o host \o port \o query \o trail :
       lead \in {<<>>, <<" ">>, <<"v">>}, host \in UrlHosts,
       port \in {<<>>, <<":port">>}, query \in UrlQueries,
       trail \in {<<>>, <<" ">>}}

UrlChannels(id) ==
    {[DefaultChannel(id) EXCEPT !.output_type = "udp_ts",
                                !.output_target = t, !.profile = NoProfile]
       : t \in UrlTargets}

InitUrl ==
    /\ clock = BuildStart
    /\ chans \in {f \in [ChanIds -> UNION {UrlChannels(i) : i \in ChanIds}] :
                     \A i \in ChanIds : f[i].id = i}
    /\ disk = [c \in ChanIds |-> {}]
    /\ playlist = [c \in ChanIds |-> <<>>]
    /\ running = <<>>
    /\ lastCmd = <<>>
    /\ procs = <<>>
    /\ pc = "build"
    /\ tick = NoTick
    /\ since = Quiet
    /\ pruned = NoPrune
    /\ built = NoBuild
    /\ desired_jobs = <<>>
    /\ listing = <<>>

NextUrl == \E c \in ChanIds : BuildPlayback(c)

SpecUrl == InitUrl /\ [][NextUrl]_vars

\* Number of occurrences of a token in a string.
Count(s, tok) == Cardinality({i \in 1..Len(s) : s[i] = tok})

\* The string ends with a TTL parameter appended to a prefix: joined with
\* "&" when the prefix has a query, with "?" otherwise.
TtlAppended(url) ==
    /\ Len(url) >= 3
    /\ url[Len(url) - 1] = "ttl=" /\ url[Len(url)] = "16"
    /\ url[Len(url) - 2] =
         (IF Contains(SubSeq(url, 1, Len(url) - 3), "?") THEN "&" ELSE "?")

\* The address tokens of a target, and the multicast addresses
\* (224.0.0.0 - 239.255.255.255).
Addresses(t) == Range(t) \cap IpTokens
Multicast == {"ip224", "ip239"}

\* The target is a UDP URL that names one destination address.
UdpToOneAddress(t) ==
    /\ Strip(t) # <<>> /\ Head(Strip(t)) = "udp://"
    /\ Count(t, "udp://") = 1
    /\ Cardinality(Addresses(t)) = 1

\* C24: a UDP target whose destination address is multicast and that
\* carries no ttl parameter gets a default TTL appended to the output URL
\* of the built command, joined with "&" when the URL has a query and "?"
\* otherwise; a target outside the range or already carrying ttl gets none.
C24_TtlForMulticast ==
    [][\A c \in ChanIds :
         (/\ built' # built /\ built'.chan = c /\ built'.status = "ok"
          /\ UdpToOneAddress(chans[c].output_target))
           => LET t == chans[c].output_target
              IN  IF Addresses(t) \subseteq Multicast /\ ~Contains(t, "ttl=")
                  THEN TtlAppended(built'.cmd.url)
                  ELSE Count(built'.cmd.url, "ttl=") = Count(t, "ttl=")]_vars

\* ------------------------------------------------------------------------
\* Drift and retries in the start step
\* ------------------------------------------------------------------------
\* The tick detects drift for key k: the key is desired, its process is
\* live, and the tick terminates it.
DriftDetected(k) ==
    /\ TickStep
    /\ k \in LiveKeys
    /\ Contains(DesiredJobs(chans, clock), k)
    /\ \E i \in DOMAIN tick'.events :
          tick'.events[i].key = k /\ tick'.events[i].op = "terminate"

\* C25 as stated: the tick that detects drift only terminates the process;
\* the replacement is not spawned in that tick.
C25_Original ==
    [][\A k \in Keys :
          DriftDetected(k)
            => OpsOf(tick'.events, k) = <<"terminate">> /\ running'[k] = 0]_vars

\* C25: the tick that detects drift for a live playback process terminates
\* it and, in the same tick, rebuilds and spawns the replacement with the
\* new argument vector, which the table and the recorded vector then hold;
\* only when that rebuild or spawn fails is the key left absent from the
\* table, and a key that is desired and absent from the table is attempted
\* by the start step of every tick.
C25_DriftRespawnsInSameTick ==
    [][\A k \in Keys :
          /\ DriftDetected(k)
               => LET ev == EventsOf(tick'.events, k)
                  IN  /\ k[1] = "playback"
                      /\ Len(ev) = 2
                      /\ ev[1].op = "terminate" /\ ev[1].pid = running[k]
                      /\ procs'[running[k]].signalled
                      /\ \/ /\ ev[2].op = "spawn"
                            /\ ev[2].cmd # lastCmd[k]
                            /\ running'[k] = ev[2].pid
                            /\ running'[k] # running[k]
                            /\ procs'[running'[k]].alive
                            /\ lastCmd'[k] = ev[2].cmd
                         \/ /\ ev[2].op \in FailOps
                            /\ running'[k] = 0
                            /\ lastCmd'[k] = lastCmd[k]
          /\ (/\ TickStep /\ running[k] = 0
              /\ Contains(DesiredJobs(chans, clock), k))
               => \E i \in DOMAIN tick'.events :
                     /\ tick'.events[i].key = k
                     /\ tick'.events[i].op \in FailOps \cup {"spawn"}]_vars

\* A tick terminated a live playback process whose command had drifted and
\* spawned its replacement, which is now tracked and alive, while the old
\* process has not exited yet.
C25_Witness ==
    \E c \in ChanIds :
       /\ OpsOf(tick.events, PlaybackKey(c)) = <<"terminate", "spawn">>
       /\ PlaybackKey(c) \in LiveKeys
       /\ \E p \in DOMAIN procs :
             /\ procs[p].key = PlaybackKey(c) /\ p < running[PlaybackKey(c)]
             /\ procs[p].signalled /\ procs[p].alive

\* The start logic of the tick logged op for key k.
Logged(events, k, op) ==
    \E i \in DOMAIN events : events[i].key = k /\ events[i].op = op

\* Key k is the time-shift playback key of its channel: the profile is
\* enabled with a delay of 1 to one day.
TimeShiftKey(k) ==
    /\ k[1] = "playback"
    /\ ProfileEnabled(chans[k[2]])
    /\ ProfileDelay(chans[k[2]]) \in 1..DayLen

\* C26 as stated: a desired key whose build fails with NotReady is absent
\* from the running-job table after the tick, and a desired key without a
\* live process is spawned by the tick at which a segment lies in the
\* selection window.
C26_Original ==
    [][\A k \in Keys :
          /\ (TickStep /\ Logged(tick'.events, k, "NotReady"))
               => running'[k] = 0
          /\ (/\ TickStep /\ TimeShiftKey(k) /\ k \notin LiveKeys
              /\ Contains(DesiredJobs(chans, clock), k)
              /\ InWindow(k[2], clock) # {})
               => OpsOf(tick'.events, k) = <<"spawn">>]_vars

\* C26: a desired key without a live process whose build fails with
\* NotReady is left without a live process in the table (its entry is
\* absent or still holds the process that had exited before the tick) and
\* with its recorded vector unchanged, and the loop goes on; a desired key
\* without a live process is attempted by every tick; the attempt of a
\* time-shift playback key fails with NotReady exactly when no segment
\* lies in the selection window, and otherwise spawns the process unless
\* writing the playlist or launching the process fails.
C26_NotReadyRetried ==
    [][\A k \in Keys :
          /\ (TickStep /\ Logged(tick'.events, k, "NotReady"))
               => /\ pc' = "loop"
                  /\ k \notin LiveKeys
                  /\ running'[k] \in {0, running[k]}
                  /\ running'[k] # 0 => ~procs'[running'[k]].alive
                  /\ lastCmd'[k] = lastCmd[k]
          /\ (/\ TickStep /\ k \notin LiveKeys
              /\ Contains(DesiredJobs(chans, clock), k))
               => /\ \E i \in DOMAIN tick'.events :
                        /\ tick'.events[i].key = k
                        /\ tick'.events[i].op \in FailOps \cup {"spawn"}
                  /\ TimeShiftKey(k)
                       => /\ Logged(tick'.events, k, "NotReady")
                               <=> InWindow(k[2], clock) = {}
                          /\ InWindow(k[2], clock) # {}
                               => \/ OpsOf(tick'.events, k) \in
                                        {<<"Error">>, <<"SpawnFailure">>}
                                  \/ /\ OpsOf(tick'.events, k) = <<"spawn">>
                                     /\ running'[k] # 0
                                     /\ procs'[running'[k]].alive
                                     /\ procs'[running'[k]].key = k]_vars

\* The tick before failed the playback build because the only segment, which
\* the record process had just written, was newer than the target; the tick
\* at which that segment entered the window spawned the playback process.
C26_Witness ==
    \E c \in ChanIds :
       /\ tick.n = 2 /\ tick.prevFailed /\ ~tick.failed
       /\ OpsOf(tick.events, PlaybackKey(c)) = <<"spawn">>
       /\ TimeShiftKey(PlaybackKey(c))
       /\ {RecordKey(c), PlaybackKey(c)} \subseteq LiveKeys
       /\ disk[c] = {NamedFile(clock - POLL_INTERVAL - 1)}
       /\ playlist[c] = <<NamedFile(clock - POLL_INTERVAL - 1)>>

\* ------------------------------------------------------------------------
\* SpecRetention: the pruner over retention settings
\* ------------------------------------------------------------------------
RetentionChannels(id) ==
    {[DefaultChannel(id) EXCEPT
         !.auto_delete_enabled = TRUE, !.profile = p,
         !.auto_delete_after_segments = n, !.auto_delete_after_days = d] :
       p \in {NoProfile, Profile(TRUE, 1)}, n \in {None, 0, 1, 2},
       d \in {None, 0, 1}}

InitRetention ==
    /\ clock = PruneStart
    /\ chans \in {f \in [ChanIds -> UNION {RetentionChannels(i) : i \in ChanIds}] :
                     \A i \in ChanIds : f[i].id = i}
    /\ disk \in [ChanIds -> {S \in SUBSET FileUniverse : Cardinality(S) <= MaxFiles}]
    /\ playlist = [c \in ChanIds |-> <<>>]
    /\ running = <<>>
    /\ lastCmd = <<>>
    /\ procs = <<>>
    /\ pc = "prune"
    /\ tick = NoTick
    /\ since = Quiet
    /\ pruned = NoPrune
    /\ built = NoBuild
    /\ desired_jobs = <<>>
    /\ listing = <<>>

NextRetention ==
    \/ \E c \in ChanIds : AutoDeleteForChannel(c)
    \/ Advance

SpecRetention == InitRetention /\ [][NextRetention]_vars

\* A run of the pruner on channel c.
Pruning(c) == pruned' # pruned /\ pruned'.chan = c

\* C27: with age-based retention set to D days, D any non-negative value,
\* a prune at now selects every segment older than now - D days and older
\* than the protected cutoff, and the age rule selects no segment at or
\* after now - D days.
C27_AgeRetention ==
    [][\A c \in ChanIds :
         (Pruning(c) /\ chans[c].auto_delete_after_days # None)
           => LET cutoff == clock - (chans[c].auto_delete_after_days * DayLen)
              IN  /\ \A f \in disk[c] :
                       (/\ Timestamp(f) < cutoff
                        /\ Timestamp(f) < ProtectAfter(chans[c], clock))
                         => f \in pruned'.to_delete
                  /\ \A f \in pruned'.by_age : Timestamp(f) < cutoff]_vars

\* The listing a prune sorted holds every file of the channel once, in
\* ascending timestamp order.
SortedListingOf(items, files) ==
    /\ Range(items) = files /\ Len(items) = Cardinality(files)
    /\ \A i \in 1..(Len(items) - 1) :
          Timestamp(items[i]) <= Timestamp(items[i + 1])

C29_UnionDeletedBestEffort ==
    [][\A c \in ChanIds :
         Pruning(c)
           => /\ pruned'.ran
              /\ pruned'.to_delete = pruned'.by_age \cup pruned'.by_count
              /\ pruned'.to_delete \subseteq disk[c]
              /\ pruned'.failed \subseteq pruned'.to_delete
              /\ disk'[c] = disk[c] \ (pruned'.to_delete \ pruned'.failed)
              /\ pc' = pc]_vars

\* A prune in which the two rules selected different sets, the unlink of
\* the first path failed and a later path was removed.
C29_Witness ==
    /\ pruned.ran
    /\ pruned.by_age # {} /\ pruned.by_count # {}
    /\ pruned.by_age # pruned.by_count
    /\ \E f \in pruned.failed :
          \E g \in pruned.to_delete \ pruned.failed :
             /\ f.path < g.path
             /\ f \in disk[pruned.chan] /\ g \notin disk[pruned.chan]

\* C30: the segment listing is deterministic: two listings of the same
\* directory contents return the same sequence of (timestamp, path) pairs,
\* whatever order the directory is enumerated in, also when timestamps are
\* equal or fall back to the modification time.
C30_ListingDeterministic ==
    [][(listing # <<>> /\ listing' # <<>> /\ disk' = disk)
         => listing' = listing]_vars

\* ------------------------------------------------------------------------
\* Weekday and date filters inside an overnight window
\* ------------------------------------------------------------------------
\* C31: for an enabled channel with start > end, an instant after midnight
\* with time of day < end is active exactly when the weekday flag of that
\* instant's own day is enabled and its own date is within
\* [date_from, date_to], whatever the flag of the day on which the window
\* started.
C31_OvernightFiltersOnOwnDay ==
    pc = "evaluated" =>
      \A c \in ChanIds :
         (/\ chans[c].enabled
          /\ StartOf(chans[c]) > EndOf(chans[c])
          /\ clock % DayLen < EndOf(chans[c]))
           => (tick.active[c] <=> OnEnabledDay(chans[c], clock))

\* A Monday-only overnight schedule without date bounds was found inactive
\* on Tuesday before its end, in the window that started on Monday.
C31_Witness ==
    /\ pc = "evaluated"
    /\ \E c \in ChanIds :
          /\ chans[c].enabled
          /\ chans[c].weekday_flags = OnlyMonday
          /\ chans[c].date_from = None /\ chans[c].date_to = None
          /\ StartOf(chans[c]) > EndOf(chans[c])
          /\ clock \div DayLen = 1
          /\ clock % DayLen < EndOf(chans[c])
          /\ ~tick.active[c]

\* ------------------------------------------------------------------------
\* A drift check that cannot rebuild the command
\* ------------------------------------------------------------------------
\* The drift check of the tick about to run meets a live process for the
\* desired playback key k and its build can only fail with NotReady or
\* InvalidConfig.
DriftCheckCannotBuild(k) ==
    /\ TickStep
    /\ k[1] = "playback"
    /\ k \in LiveKeys
    /\ Contains(DesiredJobs(chans, clock), k)
    /\ \A b \in BuildOutcomes(chans[k[2]], "playback", clock, disk[k[2]]) :
          b.status \in {"NotReady", "InvalidConfig"}

\* C32: when the drift check for a live playback process cannot rebuild
\* the command (NotReady, InvalidConfig), the tick issues no terminate for
\* the key, the process stays alive and unsignalled as it was, it stays in
\* the running-job table and its recorded argument vector is unchanged.
C32_FailedDriftCheckKeepsProcess ==
    [][\A k \in Keys :
          DriftCheckCannotBuild(k)
            => /\ EventsOf(tick'.events, k) = <<>>
               /\ running'[k] = running[k]
               /\ procs'[running[k]] = procs[running[k]]
               /\ lastCmd'[k] = lastCmd[k]]_vars

\* A playback process started in live mode is alive, tracked and never
\* signalled after a tick that followed the switch of its channel to
\* time-shift with no segment on disk: the build of the drift check failed
\* and the tick did nothing for the key.
C32_Witness ==
    \E c \in ChanIds :
       /\ tick.n = 2 /\ tick.edit = "other" /\ tick.failed
       /\ since.edit = "none" /\ ~since.diskChanged
       /\ TimeShiftKey(PlaybackKey(c))
       /\ disk[c] = {}
       /\ EventsOf(tick.events, PlaybackKey(c)) = <<>>
       /\ PlaybackKey(c) \in LiveKeys
       /\ ~procs[running[PlaybackKey(c)]].signalled
       /\ lastCmd[PlaybackKey(c)].mode = "live"

\* ------------------------------------------------------------------------
\* Processes of one key
\* ------------------------------------------------------------------------
\* C33: at any moment at most one process spawned by the enforcer for a
\* given key is alive (a replacement is spawned only after the previous
\* process of the key has exited).
C33_OneLiveProcessPerKey ==
    \A p, q \in DOMAIN procs :
       (procs[p].alive /\ procs[q].alive /\ procs[p].key = procs[q].key)
         => p = q

\* Process p is the one the running-job table holds for its key.
Tracked(p) == running[procs[p].key] = p

\* C34: while the loop runs, so after every tick, every process the
\* enforcer has spawned is tracked in the running-job table, has exited,
\* or has been sent a terminate: no live process that was never signalled
\* is dropped from the table or overwritten in it.
C34_UntrackedLiveWereSignalled ==
    pc = "loop" =>
      \A p \in DOMAIN procs :
         Tracked(p) \/ ~procs[p].alive \/ procs[p].signalled

\* The last tick terminated a process and dropped it from the table; the
\* process has not exited yet.
C34_Witness ==
    /\ pc = "loop"
    /\ \E p \in DOMAIN procs :
          /\ procs[p].alive /\ procs[p].signalled /\ ~Tracked(p)
          /\ \E i \in DOMAIN tick.events :
                tick.events[i].op = "terminate" /\ tick.events[i].pid = p

\* ------------------------------------------------------------------------
\* The playlist file under a live time-shift playback process
\* ------------------------------------------------------------------------
\* The tick about to run meets a live process for the desired time-shift
\* playback key of channel c.
LiveTimeShift(c) ==
    /\ TickStep
    /\ PlaybackKey(c) \in LiveKeys
    /\ TimeShiftKey(PlaybackKey(c))
    /\ Contains(DesiredJobs(chans, clock), PlaybackKey(c))

\* The playlists a time-shift build of channel c can write at now.
Playlists(c, now) ==
    {ChosenSegments(ProfileDelay(chans[c]), now, segments) :
       segments \in IterRecordingSegments(disk[c])} \ {<<>>}

\* C35 as stated: while a time-shift playback process is live and the
\* configuration of its channel is unchanged, a tick leaves the playlist
\* file of the channel as it was.
C35_Original ==
    [][\A c \in ChanIds :
          (LiveTimeShift(c) /\ since.edit = "none")
            => playlist'[c] = playlist[c]]_vars

\* C35: while a time-shift playback process is live, the build of every
\* tick's drift check writes the playlist file of its channel, spawn or no
\* spawn: after a tick without a failure the file lists the segments of
\* the selection window of that tick; the file is left as it was only when
\* the build fails, which it does whenever the window holds no segment.
C35_DriftCheckRewritesPlaylist ==
    [][\A c \in ChanIds :
          LiveTimeShift(c)
            => /\ playlist'[c] \in {playlist[c]} \cup Playlists(c, clock)
               /\ ~tick'.failed => playlist'[c] \in Playlists(c, clock)
               /\ InWindow(c, clock) = {}
                    => playlist'[c] = playlist[c] /\ tick'.failed]_vars

\* The last tick spawned nothing for a live time-shift playback key, whose
\* process dates from an earlier tick, and the playlist lists a segment
\* that entered the selection window only at the last tick.
C35_Witness ==
    \E c \in ChanIds :
       /\ tick.n = 2 /\ tick.edit = "none" /\ ~tick.failed
       /\ EventsOf(tick.events, PlaybackKey(c)) = <<>>
       /\ PlaybackKey(c) \in LiveKeys
       /\ TimeShiftKey(PlaybackKey(c))
       /\ \E i \in DOMAIN playlist[c] :
             Timestamp(playlist[c][i])
               = clock - POLL_INTERVAL - ProfileDelay(chans[c])

\* ------------------------------------------------------------------------
\* The playback vector does not depend on the time or on the disk
\* ------------------------------------------------------------------------
\* Instants and disk contents a build is tried on.
AnyNow == EnfStart - 1 .. EnfEnd
AnyDisks == SUBSET {NamedFile(0), NamedFile(EnfStart - 1), NamedFile(EnfStart)}

\* The argument vectors the successful playback builds of a channel return,
\* over those instants and disks.
VectorsOf(chan) ==
    UNION {{b.cmd : b \in {o \in BuildOutcomes(chan, "playback", now, files) :
                             o.status = "ok"}}
             : now \in AnyNow, files \in AnyDisks}

\* C36: for the configuration a tick reads, the successful playback builds
\* of a channel return one and the same argument vector whatever the
\* instant and the segments on disk, and the tick terminates a live
\* playback process for drift only when the recorded vector is not that
\* vector: the arrival or pruning of segments alone restarts nothing.
C36_VectorIndependentOfSegments ==
    [][\A k \in Keys :
          (/\ TickStep /\ k[1] = "playback" /\ k \in LiveKeys
           /\ Contains(DesiredJobs(chans, clock), k))
            => LET cmds == VectorsOf(chans[k[2]])
               IN  /\ Cardinality(cmds) <= 1
                   /\ Logged(tick'.events, k, "terminate")
                        => lastCmd[k] \notin cmds]_vars

\* A time-shift playback process is live after a second tick that did
\* nothing for its key and whose builds succeeded, although the pruner had
\* deleted the oldest segment since the process was spawned.
C36_Witness ==
    \E c \in ChanIds :
       /\ tick.n = 2 /\ tick.edit = "none" /\ ~tick.failed
       /\ EventsOf(tick.events, PlaybackKey(c)) = <<>>
       /\ PlaybackKey(c) \in LiveKeys
       /\ TimeShiftKey(PlaybackKey(c))
       /\ lastCmd[PlaybackKey(c)].mode = "timeshift"
       /\ chans[c].auto_delete_enabled
       /\ disk[c] = {NamedFile(EnfStart - 1)}

====
